---- MODULE Spec2Model ----
(***************************************************************************)
(* Credential / session / client lifecycle of cloud-explorer:              *)
(*   backend/app/models/aws.py          AWSSession, AWSSessionCache        *)
(*   backend/app/aws/session_manager.py AWSSessionManager                  *)
(*   backend/app/aws/client_factory.py  AWSServiceClientFactory            *)
(*                                                                         *)
(* Time is counted in units of 15 minutes (the refresh threshold of        *)
(* AWSSession.should_refresh), so 1 hour = 4 and 24 hours = 96.            *)
(* The session cache (a Python dict) is a sequence in insertion order.     *)
(* An exception is the sequence of its types, outermost first: the head is *)
(* the type raised, the rest its chain of causes (raise ... from e).       *)
(***************************************************************************)
EXTENDS Integers, Sequences, FiniteSets, TLC

VARIABLES
    now,            \* datetime.utcnow(), in units of 15 minutes
    ticks,          \* number of times the clock has advanced
    profiles,       \* what credentials_reader.read_all_profiles() yields
    sessions,       \* AWSSessionManager.session_cache.sessions
    nextId,         \* number of uuid4() session ids drawn so far
    client_cache,   \* AWSServiceClientFactory.client_cache
    nextClient,     \* number of client objects constructed so far
    service_availability_cache,
                    \* AWSServiceClientFactory.service_availability_cache
    last,           \* the last operation: arguments, outcome, trace of calls
    tasks,          \* the asyncio tasks in flight: where each is suspended
    reader          \* AWSCredentialsReader: the two profile files, its caches

vars == <<now, ticks, profiles, sessions, nextId, client_cache, nextClient,
          service_availability_cache, last, tasks, reader>>

----------------------------------------------------------------------------
(* Bounds of the model *)

max_sessions == 2          \* AWSSessionCache.max_sessions (default 100)
max_cached_clients == 2    \* AWSServiceClientFactory.max_cached_clients (200)
MaxIds == 3                \* session ids drawn in one behaviour
MaxClients == 3            \* client objects constructed in one behaviour
MaxTicks == 2              \* clock advances in one behaviour
MaxCalls == 4              \* remote calls one operation can make
\* Depth of assume_role -> get_session nesting the interpreter allows (a
\* model-sized stand-in for sys.getrecursionlimit())
RecursionLimit == 2

(* Program constants, in units of 15 minutes *)

RefreshThreshold == 1          \* should_refresh(threshold_minutes=15)
StandardSessionTTL == 96       \* timedelta(hours=24)
SsoSessionTTL == 4             \* timedelta(hours=1)
default_session_duration == 4  \* self._default_session_duration = 3600
ClientTTL == 4                 \* ttl_minutes = 60

None == "None"
NoExpiry == -1                 \* expires_at = None
NoDuration == 0                \* duration_seconds = None

TickSteps == {3, 92}
ExpirationOffsets == {2, 4}    \* Expiration the identity service may return
Regions == {"us-east-1", "eu-west-1"}
RegionArgs == {None, "eu-west-1"}

----------------------------------------------------------------------------
(* Values *)

NoCreds == [kind |-> "none", of |-> "none"]
StaticCreds(p) == [kind |-> "static", of |-> p]
\* Temporary credentials the identity service hands out for a role
StsCreds(arn) == [kind |-> "sts", of |-> arn[Len(arn)]]

\* A role ARN is the sequence of its '/'-separated parts
AdminArn == <<"arn:aws:iam::111:role", "Admin">>
AuditArn == <<"arn:aws:iam::222:role", "Audit">>
NoArn == <<>>

\* AWSProfile, as far as the session manager reads it
Profile(type, region, creds, arn, src, dur, sso) ==
    [profile_type |-> type, region |-> region, credentials |-> creds,
     role_arn |-> arn, source_profile |-> src, duration_seconds |-> dur,
     sso_complete |-> sso]

\* default: static keys; prod: role on default; sso: SSO login;
\* fed: web identity, no embedded keys
ProfileTable(dur) ==
    [n \in {"default", "prod", "sso", "fed"} |->
        CASE n = "default" -> Profile("iam_user", None, StaticCreds("default"),
                                      NoArn, None, NoDuration, FALSE)
          [] n = "prod"    -> Profile("iam_role", None, NoCreds,
                                      AdminArn, "default", dur, FALSE)
          [] n = "sso"     -> Profile("sso", "eu-west-1", NoCreds,
                                      NoArn, None, NoDuration, TRUE)
          [] OTHER         -> Profile("federated", None, NoCreds,
                                      NoArn, None, NoDuration, FALSE)]

ProfileConfigs == {ProfileTable(NoDuration)}
ProfileNames == {"default", "prod", "sso", "fed", "ghost"}

----------------------------------------------------------------------------
(* models/aws.py: AWSSession *)

is_expired(s, t) ==
    IF s.expires_at = NoExpiry THEN FALSE ELSE t >= s.expires_at

time_until_expiry(s, t) ==
    LET remaining == s.expires_at - t
    IN  IF remaining > 0 THEN remaining ELSE 0

should_refresh_Strict(s, t) ==
    IF s.expires_at = NoExpiry THEN FALSE
    ELSE time_until_expiry(s, t) < RefreshThreshold

should_refresh(s, t) ==
    IF s.expires_at = NoExpiry THEN FALSE
    ELSE time_until_expiry(s, t) <= RefreshThreshold

(* models/aws.py: AWSSessionCache *)

RemoveAt(seq, i) == SubSeq(seq, 1, i - 1) \o SubSeq(seq, i + 1, Len(seq))

cleanup_expired(ss, t) == SelectSeq(ss, LAMBDA s : ~is_expired(s, t))

oldest_key_Soonest(ss) ==
    CHOOSE i \in 1..Len(ss) :
        \A j \in 1..Len(ss) :
            \/ time_until_expiry(ss[i], now) < time_until_expiry(ss[j], now)
            \/ (time_until_expiry(ss[i], now) = time_until_expiry(ss[j], now)
                /\ i >= j)

\* min(keys, key=created_at): the first key, in dict order, of least created_at
oldest_key(ss) ==
    CHOOSE i \in 1..Len(ss) :
        \A j \in 1..Len(ss) :
            \/ ss[i].created_at < ss[j].created_at
            \/ (ss[i].created_at = ss[j].created_at /\ i <= j)

add_session_NoEvict(ss, s, t) == Append(cleanup_expired(ss, t), s)

add_session(ss, s, t) ==
    LET kept == cleanup_expired(ss, t)
        room == IF Len(kept) >= max_sessions
                THEN RemoveAt(kept, oldest_key(kept))
                ELSE kept
    IN  Append(room, s)

\* Index of the first session, in dict order, for (profile, region) that is
\* not expired; 0 for None
get_session_by_profile(ss, profile_name, region, t) ==
    LET hits == {i \in 1..Len(ss) :
                    /\ ss[i].profile_name = profile_name
                    /\ ss[i].region = region
                    /\ ~is_expired(ss[i], t)}
    IN  IF hits = {} THEN 0
        ELSE CHOOSE i \in hits : \A j \in hits : i <= j

----------------------------------------------------------------------------
(* aws/session_manager.py: AWSSessionManager                               *)
(*                                                                         *)
(* An operation threads a record m through its steps:                      *)
(*   m.sessions, m.nextId  the cache and the ids drawn                     *)
(*   m.calls               the trace: calls entered and remote requests    *)
(*   m.k                   remote requests issued so far                   *)
(* and returns [m, ok, err, val]: the state it leaves, and either the      *)
(* value returned or the exception raised.  env.failAt is the remote       *)
(* request of the operation that fails (0: none does); env.exp the offset  *)
(* of the Expiration an assume-role response carries.                      *)
(***************************************************************************)

Start ==
    [sessions |-> sessions, nextId |-> nextId, calls |-> <<>>, k |-> 0,
     client_cache |-> client_cache, nextClient |-> nextClient,
     service_availability_cache |-> service_availability_cache,
     delays |-> <<>>]

\* An entry of the trace: site is the function, call the request it sends to
\* the identity service ("enter" when the entry marks the call of site
\* itself), who the profile or role it is for, lvl the nesting depth of
\* assume_role -> get_session, ok whether the request succeeded and exp the
\* Expiration of an assume-role response
Event(site, call, who, lvl, ok, exp) ==
    [site |-> site, call |-> call, who |-> who, lvl |-> lvl, ok |-> ok,
     exp |-> exp]
Enter(m, site, who, lvl) ==
    [m EXCEPT !.calls = Append(@, Event(site, "enter", who, lvl, TRUE,
                                        NoExpiry))]
\* One request to the identity service
Remote(m, env, site, call, who, lvl) ==
    [m EXCEPT !.calls = Append(@, Event(site, call, who, lvl,
                                        env.failAt # m.k + 1,
                                        IF call = "sts:AssumeRole"
                                           /\ env.failAt # m.k + 1
                                        THEN now + env.exp ELSE NoExpiry)),
              !.k = @ + 1]
\* Whether the request just issued succeeded
Succeeded(m) == m.calls[Len(m.calls)].ok

NoHandle == [via |-> "none", profile_name |-> None, region |-> None,
             credentials |-> NoCreds, session_id |-> 0]
NoSession == [profile_name |-> None, region |-> None, session_id |-> 0,
              created_at |-> 0, expires_at |-> NoExpiry,
              credentials |-> NoCreds, is_role_session |-> FALSE,
              role_arn |-> NoArn, origin |-> "none"]

Return(m, v) == [m |-> m, ok |-> TRUE, err |-> <<>>, val |-> v]
Raise(m, chain) == [m |-> m, ok |-> FALSE, err |-> chain, val |-> NoHandle]
\* raise T(...) from e
RaiseFrom(r, type) == Raise(r.m, <<type>> \o r.err)

\* AWSSession(...): created_at defaults to utcnow().  origin is not a field
\* of the program: it records which strategy built the session.
AWSSession(profile_name, region, session_id, expires_at, credentials, is_role_session, role_arn, origin) ==
    [profile_name |-> profile_name, region |-> region,
     session_id |-> session_id, created_at |-> now,
     expires_at |-> expires_at, credentials |-> credentials,
     is_role_session |-> is_role_session, role_arn |-> role_arn,
     origin |-> origin]

\* boto3.Session(profile_name=..., region_name=...)
ProfileHandle(profile_name, region, session_id) ==
    [via |-> "profile", profile_name |-> profile_name, region |-> region,
     credentials |-> NoCreds, session_id |-> session_id]
\* boto3.Session(aws_access_key_id=..., ..., region_name=...)
KeysHandle(credentials, region, session_id) ==
    [via |-> "keys", profile_name |-> None, region |-> region,
     credentials |-> credentials, session_id |-> session_id]

_get_profile(m, profile_name) ==
    IF profile_name \notin DOMAIN profiles
    THEN Raise(m, <<"AWSProfileNotFoundError">>)
    ELSE Return(m, profiles[profile_name])

_create_standard_session_Hour(m, name, profile, region, session_id) ==
    IF profile.credentials = NoCreds
    THEN Raise(m, <<"AWSSessionError">>)
    ELSE Return(m, AWSSession(name, region, session_id,
                              now + SsoSessionTTL, profile.credentials,
                              FALSE, NoArn, "standard"))

_create_standard_session(m, name, profile, region, session_id) ==
    IF profile.credentials = NoCreds
    THEN Raise(m, <<"AWSSessionError">>)
    ELSE Return(m, AWSSession(name, region, session_id,
                              now + StandardSessionTTL, profile.credentials,
                              FALSE, NoArn, "standard"))

SsoSession_WithCreds(name, region, session_id) ==
    AWSSession(name, region, session_id, now + SsoSessionTTL,
               [kind |-> "sso", of |-> name], TRUE,
               <<"arn:aws:iam::sso:role", name>>, "sso")

\* The AWSSession _create_sso_session returns
SsoSession(name, region, session_id) ==
    AWSSession(name, region, session_id, now + SsoSessionTTL,
               NoCreds, TRUE, <<"arn:aws:iam::sso:role", name>>, "sso")

_create_sso_session(m, env, name, profile, region, session_id, lvl) ==
    IF ~profile.sso_complete
    THEN Raise(m, <<"AWSSessionError">>)
    ELSE LET m1 == Remote(m, env, "_create_sso_session",
                          "sts:GetCallerIdentity", name, lvl)
         IN  IF Succeeded(m1)
             THEN Return(m1, SsoSession(name, region, session_id))
             ELSE Raise(m1, <<"AWSSessionError", "ClientError">>)

_create_boto3_session_from_cached_ByRole(m, s) ==
    IF s.is_role_session /\ s.origin # "role"
    THEN Return(m, ProfileHandle(s.profile_name, s.region, s.session_id))
    ELSE IF s.credentials = NoCreds
    THEN Raise(m, <<"AWSSessionError">>)
    ELSE Return(m, KeysHandle(s.credentials, s.region, s.session_id))

_create_boto3_session_from_cached(m, s) ==
    IF s.is_role_session /\ s.credentials = NoCreds
    THEN Return(m, ProfileHandle(s.profile_name, s.region, s.session_id))
    ELSE IF s.credentials = NoCreds
    THEN Raise(m, <<"AWSSessionError">>)
    ELSE Return(m, KeysHandle(s.credentials, s.region, s.session_id))

_validate_session_Unchecked(m, env, h, who, lvl) ==
    Return(Remote(m, env, "_validate_session", "sts:GetCallerIdentity",
                  who, lvl), h)

_validate_session(m, env, h, who, lvl) ==
    LET m1 == Remote(m, env, "_validate_session", "sts:GetCallerIdentity",
                     who, lvl)
    IN  IF Succeeded(m1)
        THEN Return(m1, h)
        ELSE Raise(m1, <<"AWSSessionError", "ClientError">>)

SessionErrors == {"AWSSessionError", "AWSSessionExpiredError"}

\* get_session's handler: except Exception as e: re-raise a profile-not-found
\* or session error, wrap anything else
get_session_except(r) ==
    IF r.ok \/ Head(r.err) \in SessionErrors \cup {"AWSProfileNotFoundError"}
    THEN r
    ELSE RaiseFrom(r, "AWSSessionError")

\* if cached_session and not cached_session.should_refresh()
UseCached(ss, i) == i # 0 /\ ~should_refresh(ss[i], now)

RoleSession_Plain(name, profile, region, session_id, credentials) ==
    AWSSession(name, region, session_id,
               now + (IF profile.duration_seconds # NoDuration
                      THEN profile.duration_seconds
                      ELSE default_session_duration),
               credentials, FALSE, NoArn, "role")

\* The AWSSession _create_role_session returns
RoleSession(name, profile, region, session_id, credentials) ==
    AWSSession(name, region, session_id,
               now + (IF profile.duration_seconds # NoDuration
                      THEN profile.duration_seconds
                      ELSE default_session_duration),
               credentials, TRUE, profile.role_arn, "role")

\* The AWSSession assume_role caches
AssumedSession(role_arn, region, session_id, expiration) ==
    AWSSession("role-" \o role_arn[Len(role_arn)], region, session_id,
               expiration, StsCreds(role_arn), TRUE, role_arn, "assume_role")

\* sts_client.assume_role(**assume_role_params), run once
sts_assume_role_Retry(m, env, role_arn, lvl) ==
    LET m1 == Remote(m, env, "assume_role", "sts:AssumeRole",
                     role_arn[Len(role_arn)], lvl)
    IN  IF Succeeded(m1) THEN m1
        ELSE Remote(m1, env, "assume_role", "sts:AssumeRole",
                    role_arn[Len(role_arn)], lvl)

sts_assume_role(m, env, role_arn, lvl) ==
    Remote(m, env, "assume_role", "sts:AssumeRole", role_arn[Len(role_arn)],
           lvl)

RECURSIVE get_session(_, _, _, _, _, _)
RECURSIVE _create_new_session(_, _, _, _, _, _)
RECURSIVE _create_role_session(_, _, _, _, _, _, _)
RECURSIVE assume_role(_, _, _, _, _, _)

assume_role(m, env, role_arn, source_profile, region_arg, lvl) ==
    LET region == IF region_arg # None THEN region_arg ELSE "us-east-1"
        who == role_arn[Len(role_arn)]
        Assumed(m1) ==
            IF ~Succeeded(m1)
            THEN Raise(m1, <<"AWSSessionError", "ClientError">>)
            ELSE Return([m1 EXCEPT
                            !.nextId = @ + 1,
                            !.sessions =
                                add_session(@,
                                    AssumedSession(role_arn, region,
                                        m1.nextId + 1,
                                        m1.calls[Len(m1.calls)].exp),
                                    now)],
                        KeysHandle(StsCreds(role_arn), region, 0))
        WithSource(src) ==
            IF ~src.ok
            THEN RaiseFrom(src, "AWSSessionError")
            ELSE Assumed(sts_assume_role(src.m, env, role_arn, lvl))
    IN  WithSource(get_session(Enter(m, "assume_role", who, lvl), env,
                               source_profile, region, FALSE, lvl + 1))

_create_role_session(m, env, name, profile, region, session_id, lvl) ==
    LET Assumed(a) ==
            IF ~a.ok THEN a
            ELSE Return(a.m, RoleSession(name, profile, region, session_id,
                                         a.val.credentials))
    IN  IF profile.role_arn = NoArn
        THEN Raise(m, <<"AWSSessionError">>)
        ELSE Assumed(assume_role(m, env, profile.role_arn,
                                 profile.source_profile, region, lvl))

_create_new_session(m, env, name, profile, region, lvl) ==
    LET session_id == m.nextId + 1
        m0 == [Enter(m, "_create_new_session", name, lvl)
                 EXCEPT !.nextId = session_id]
        Except(r) == IF r.ok THEN r ELSE RaiseFrom(r, "AWSSessionError")
    IN  Except(CASE profile.profile_type = "iam_role" ->
                      _create_role_session(m0, env, name, profile, region,
                                           session_id, lvl)
                 [] profile.profile_type = "sso" ->
                      _create_sso_session(m0, env, name, profile, region,
                                          session_id, lvl)
                 [] OTHER ->
                      _create_standard_session(m0, name, profile, region,
                                               session_id))

\* The interpreter refuses a call nested deeper than its recursion limit
\* and raises RecursionError at the call
call_depth_exceeded_Late(lvl) == lvl > RecursionLimit + 1

call_depth_exceeded(lvl) == lvl > RecursionLimit

get_session(m, env, name_arg, region_arg, force_refresh, lvl) ==
    IF call_depth_exceeded(lvl) THEN Raise(m, <<"RecursionError">>) ELSE
    LET profile_name == IF name_arg = None THEN "default" ELSE name_arg
        m0 == Enter(m, "get_session", profile_name, lvl)
        Validate(b) ==
            IF ~b.ok THEN get_session_except(b)
            ELSE get_session_except(
                    _validate_session(b.m, env, b.val, profile_name, lvl))
        Cache(c) ==
            IF ~c.ok THEN get_session_except(c)
            ELSE Validate(_create_boto3_session_from_cached(
                            [c.m EXCEPT
                                !.sessions = add_session(@, c.val, now)],
                            c.val))
        Lookup(profile, region, cached) ==
            IF UseCached(m0.sessions, cached)
            THEN get_session_except(
                    _create_boto3_session_from_cached(m0, m0.sessions[cached]))
            ELSE Cache(_create_new_session(m0, env, profile_name, profile,
                                           region, lvl))
        InRegion(profile, region) ==
            Lookup(profile, region,
                   IF force_refresh THEN 0
                   ELSE get_session_by_profile(m0.sessions, profile_name,
                                               region, now))
        WithProfile(p) ==
            IF ~p.ok THEN get_session_except(p)
            ELSE InRegion(p.val,
                          IF region_arg # None THEN region_arg
                          ELSE IF p.val.region # None THEN p.val.region
                          ELSE "us-east-1")
    IN  WithProfile(_get_profile(m0, profile_name))

\* What get_caller_identity answers for a handle
IdentityOf(h) ==
    IF h.via = "profile" THEN [kind |-> "sso", of |-> h.profile_name]
    ELSE h.credentials

\* validate_credentials returns a dict, never raises
validate_credentials_Raising(m, env, profile_name, region) ==
    LET who == IF profile_name = None THEN "default" ELSE profile_name
        Probed(g, m1) ==
            IF ~Succeeded(m1) THEN Raise(m1, <<"ClientError">>)
            ELSE Return(m1, [valid |-> TRUE, identity |-> IdentityOf(g.val),
                             error |-> <<>>])
        WithSession(g) ==
            IF ~g.ok THEN g
            ELSE Probed(g, Remote(g.m, env, "validate_credentials",
                                  "sts:GetCallerIdentity", who, 0))
    IN  WithSession(get_session(m, env, profile_name, region, FALSE, 0))

validate_credentials(m, env, profile_name, region) ==
    LET who == IF profile_name = None THEN "default" ELSE profile_name
        Probed(g, m1) ==
            IF ~Succeeded(m1)
            THEN Return(m1, [valid |-> FALSE, identity |-> NoCreds,
                             error |-> <<"ClientError">>])
            ELSE Return(m1, [valid |-> TRUE, identity |-> IdentityOf(g.val),
                             error |-> <<>>])
        WithSession(g) ==
            IF ~g.ok
            THEN Return(g.m, [valid |-> FALSE, identity |-> NoCreds,
                              error |-> g.err])
            ELSE Probed(g, Remote(g.m, env, "validate_credentials",
                                  "sts:GetCallerIdentity", who, 0))
    IN  WithSession(get_session(m, env, profile_name, region, FALSE, 0))

refresh_credentials_Cached(m, env, profile_name) ==
    LET Refreshed(g) == Return(g.m, g.ok)
    IN  Refreshed(get_session(m, env, profile_name, None, FALSE, 0))

refresh_credentials(m, env, profile_name) ==
    LET Refreshed(g) == Return(g.m, g.ok)
    IN  Refreshed(get_session(m, env, profile_name, None, TRUE, 0))

cleanup_expired_sessions_Stale(m) ==
    LET kept == SelectSeq(m.sessions, LAMBDA s : ~should_refresh(s, now))
    IN  Return([m EXCEPT !.sessions = kept], Len(m.sessions) - Len(kept))

cleanup_expired_sessions(m) ==
    LET kept == cleanup_expired(m.sessions, now)
    IN  Return([m EXCEPT !.sessions = kept], Len(m.sessions) - Len(kept))

----------------------------------------------------------------------------
(* aws/client_factory.py: AWSServiceClientFactory                          *)
(*                                                                         *)
(* client_cache (a dict) is the sequence of its entries in insertion       *)
(* order, each with its key.  env.lookup is whether the SDK's region       *)
(* lookup works, env.attempts the outcome of each construction attempt:    *)
(* "ok", "smoke" (built, smoke test fails), "cred", "conn", "other".       *)
(***************************************************************************)

max_retries == 3
base_delay == 1                \* seconds
AvailabilityTTL == 96          \* 86400 seconds

GlobalServices == {"iam", "cloudfront", "route53", "s3"}
TestedServices == {"sts", "s3", "ec2"}
\* session.get_available_regions(service_name), from the SDK's metadata
EndpointRegions(service_name) ==
    CASE service_name = "s3" -> {"us-east-1", "eu-west-1"}
      [] service_name = "glue" -> {"us-east-1"}
      [] OTHER -> {}

key_of(profile_name, region, service_name) ==
    profile_name \o ":" \o region \o ":" \o service_name

AWSClientCacheEntry(client, created_at, profile_name, region, service_name) ==
    [client |-> client, created_at |-> created_at,
     profile_name |-> profile_name, region |-> region,
     service_name |-> service_name, expires_at |-> created_at + ClientTTL]

entry_is_expired_Never(e, t) == FALSE

entry_is_expired(e, t) == t >= e.expires_at

cache_key(e) == key_of(e.profile_name, e.region, e.service_name)

\* Index of the entry stored under key; 0 when key not in client_cache
IndexOf(cc, key) ==
    IF \E i \in 1..Len(cc) : cache_key(cc[i]) = key
    THEN CHOOSE i \in 1..Len(cc) : cache_key(cc[i]) = key
    ELSE 0

cleanup_expired_clients(cc, t) ==
    SelectSeq(cc, LAMBDA e : ~entry_is_expired(e, t))

\* min(client_cache.keys(), key=created_at)
oldest_client_key(cc) ==
    CHOOSE i \in 1..Len(cc) :
        \A j \in 1..Len(cc) :
            \/ cc[i].created_at < cc[j].created_at
            \/ (cc[i].created_at = cc[j].created_at /\ i <= j)

_cache_client_NoEvict(cc, client, profile_name, region, service_name, t) ==
    LET kept == cleanup_expired_clients(cc, t)
        cache_entry == AWSClientCacheEntry(client, t, profile_name, region,
                                           service_name)
        i == IndexOf(kept, cache_key(cache_entry))
    IN  IF i # 0 THEN [kept EXCEPT ![i] = cache_entry]
        ELSE Append(kept, cache_entry)

_cache_client_Appends(cc, client, profile_name, region, service_name, t) ==
    LET kept == cleanup_expired_clients(cc, t)
        room == IF Len(kept) >= max_cached_clients
                THEN RemoveAt(kept, oldest_client_key(kept))
                ELSE kept
    IN  Append(room, AWSClientCacheEntry(client, t, profile_name, region,
                                         service_name))

_cache_client(cc, client, profile_name, region, service_name, t) ==
    LET kept == cleanup_expired_clients(cc, t)
        room == IF Len(kept) >= max_cached_clients
                THEN RemoveAt(kept, oldest_client_key(kept))
                ELSE kept
        cache_entry == AWSClientCacheEntry(client, t, profile_name, region,
                                           service_name)
        i == IndexOf(room, cache_key(cache_entry))
    IN  IF i # 0 THEN [room EXCEPT ![i] = cache_entry]
        ELSE Append(room, cache_entry)

check_service_availability_FailClosed(m, env, service_name, region) ==
    LET key == service_name \o ":" \o region
        sac == m.service_availability_cache
        looked == [m EXCEPT !.calls =
                     Append(@, Event("check_service_availability",
                                     "get_available_regions", service_name,
                                     0, env.lookup, NoExpiry))]
        availability ==
            IF region \in EndpointRegions(service_name) THEN "available"
            ELSE IF service_name \in GlobalServices THEN "available"
            ELSE "unavailable"
        old == IF service_name \in DOMAIN sac THEN sac[service_name]
               ELSE <<>>
        new == [r \in DOMAIN old \cup {region} |->
                  IF r = region
                  THEN [availability |-> availability, cached_at |-> now]
                  ELSE old[r]]
    IN  IF /\ key \in DOMAIN sac
           /\ "cached_at" \in DOMAIN sac[key]
           /\ now - sac[key]["cached_at"] < AvailabilityTTL
        THEN Return(m, sac[key]["availability"])
        ELSE IF ~env.lookup
        THEN Return(looked, "unavailable")
        ELSE Return([looked EXCEPT !.service_availability_cache =
                        [sv \in DOMAIN sac \cup {service_name} |->
                            IF sv = service_name THEN new ELSE sac[sv]]],
                    availability)

\* session.get_available_regions(service_name) is the one lookup; the trace
\* records it and whether it answered
check_service_availability(m, env, service_name, region) ==
    LET key == service_name \o ":" \o region
        sac == m.service_availability_cache
        looked == [m EXCEPT !.calls =
                     Append(@, Event("check_service_availability",
                                     "get_available_regions", service_name,
                                     0, env.lookup, NoExpiry))]
        availability ==
            IF region \in EndpointRegions(service_name) THEN "available"
            ELSE IF service_name \in GlobalServices THEN "available"
            ELSE "unavailable"
        old == IF service_name \in DOMAIN sac THEN sac[service_name]
               ELSE <<>>
        new == [r \in DOMAIN old \cup {region} |->
                  IF r = region
                  THEN [availability |-> availability, cached_at |-> now]
                  ELSE old[r]]
    IN  IF /\ key \in DOMAIN sac
           /\ "cached_at" \in DOMAIN sac[key]
           /\ now - sac[key]["cached_at"] < AvailabilityTTL
        THEN Return(m, sac[key]["availability"])
        ELSE IF ~env.lookup
        THEN Return(looked, "unknown")
        ELSE Return([looked EXCEPT !.service_availability_cache =
                        [sv \in DOMAIN sac \cup {service_name} |->
                            IF sv = service_name THEN new ELSE sac[sv]]],
                    availability)

\* _test_client: one trivial request for some services; a failure is swallowed
_test_client(m, service_name, passes) ==
    IF service_name \in TestedServices
    THEN [m EXCEPT !.calls =
            Append(@, Event("_test_client", "smoke", service_name, 0, passes,
                            NoExpiry))]
    ELSE m

RECURSIVE Attempt(_, _, _, _, _, _)
\* The exception an attempt's outcome stands for
CauseOf(outcome) ==
    IF outcome = "cred" THEN "NoCredentialsError"
    ELSE IF outcome = "conn" THEN "EndpointConnectionError"
    ELSE "Exception"

\* session.client(service_name, config=config): the trace records the
\* attempt, its number (from 0) and its outcome
Tried(m, outcome, attempt) ==
    [m EXCEPT !.calls =
        Append(@, Event("_create_client_with_retry", "session.client",
                        outcome, attempt, outcome \in {"ok", "smoke"},
                        NoExpiry))]

Attempt_RetryCredentials(m, env, h, service_name, region, attempt) ==
    LET outcome == env.attempts[attempt + 1]
        tried == Tried(m, outcome, attempt)
        client == [id |-> m.nextClient + 1, service |-> service_name,
                   region |-> region, identity |-> IdentityOf(h)]
        built == [tried EXCEPT !.nextClient = @ + 1]
    IN  IF outcome \in {"ok", "smoke"}
        THEN Return(_test_client(built, service_name, outcome = "ok"), client)
        ELSE IF attempt = max_retries - 1
        THEN Raise(tried, <<"AWSServiceError", CauseOf(outcome)>>)
        ELSE Attempt([tried EXCEPT !.delays =
                          Append(@, base_delay * 2^attempt)],
                     env, h, service_name, region, attempt + 1)

Attempt_SleepsBeforeRaise(m, env, h, service_name, region, attempt) ==
    LET outcome == env.attempts[attempt + 1]
        tried == Tried(m, outcome, attempt)
        client == [id |-> m.nextClient + 1, service |-> service_name,
                   region |-> region, identity |-> IdentityOf(h)]
        built == [tried EXCEPT !.nextClient = @ + 1]
        slept == [tried EXCEPT !.delays = Append(@, base_delay * 2^attempt)]
    IN  IF outcome \in {"ok", "smoke"}
        THEN Return(_test_client(built, service_name, outcome = "ok"), client)
        ELSE IF outcome = "cred"
        THEN Raise(tried, <<"AWSServiceError", CauseOf(outcome)>>)
        ELSE IF attempt = max_retries - 1
        THEN Raise(slept, <<"AWSServiceError", CauseOf(outcome)>>)
        ELSE Attempt(slept, env, h, service_name, region, attempt + 1)

Attempt_RaisesFirstCause(m, env, h, service_name, region, attempt) ==
    LET outcome == env.attempts[attempt + 1]
        tried == Tried(m, outcome, attempt)
        client == [id |-> m.nextClient + 1, service |-> service_name,
                   region |-> region, identity |-> IdentityOf(h)]
        built == [tried EXCEPT !.nextClient = @ + 1]
    IN  IF outcome \in {"ok", "smoke"}
        THEN Return(_test_client(built, service_name, outcome = "ok"), client)
        ELSE IF outcome = "cred"
        THEN Raise(tried, <<"AWSServiceError", CauseOf(outcome)>>)
        ELSE IF attempt = max_retries - 1
        THEN Raise(tried, <<"AWSServiceError", CauseOf(env.attempts[1])>>)
        ELSE Attempt([tried EXCEPT !.delays =
                          Append(@, base_delay * 2^attempt)],
                     env, h, service_name, region, attempt + 1)

Attempt_TestRaises(m, env, h, service_name, region, attempt) ==
    LET outcome == env.attempts[attempt + 1]
        tried == Tried(m, outcome, attempt)
        client == [id |-> m.nextClient + 1, service |-> service_name,
                   region |-> region, identity |-> IdentityOf(h)]
        built == [tried EXCEPT !.nextClient = @ + 1]
        tested == _test_client(built, service_name, outcome = "ok")
    IN  IF outcome = "ok" \/ (outcome = "smoke" /\ tested = built)
        THEN Return(tested, client)
        ELSE IF outcome = "cred"
        THEN Raise(tried, <<"AWSServiceError", CauseOf(outcome)>>)
        ELSE IF attempt = max_retries - 1
        THEN Raise(tested, <<"AWSServiceError", CauseOf(outcome)>>)
        ELSE Attempt([tested EXCEPT !.delays =
                          Append(@, base_delay * 2^attempt)],
                     env, h, service_name, region, attempt + 1)

\* One pass of the loop of _create_client_with_retry
Attempt(m, env, h, service_name, region, attempt) ==
    LET outcome == env.attempts[attempt + 1]
        tried == Tried(m, outcome, attempt)
        client == [id |-> m.nextClient + 1, service |-> service_name,
                   region |-> region, identity |-> IdentityOf(h)]
        built == [tried EXCEPT !.nextClient = @ + 1]
    IN  IF outcome \in {"ok", "smoke"}
        THEN Return(_test_client(built, service_name, outcome = "ok"), client)
        ELSE IF outcome = "cred"
        THEN Raise(tried, <<"AWSServiceError", CauseOf(outcome)>>)
        ELSE IF attempt = max_retries - 1
        THEN Raise(tried, <<"AWSServiceError", CauseOf(outcome)>>)
        ELSE Attempt([tried EXCEPT !.delays =
                          Append(@, base_delay * 2^attempt)],
                     env, h, service_name, region, attempt + 1)

_create_client_with_retry(m, env, h, service_name, region) ==
    Attempt(m, env, h, service_name, region, 0)

get_client_ChecksLate(m, env, service_name, profile_arg, region_arg, force_refresh) ==
    LET profile_name == IF profile_arg = None THEN "default" ELSE profile_arg
        region == IF region_arg = None THEN "us-east-1" ELSE region_arg
        i == IndexOf(m.client_cache, key_of(profile_name, region, service_name))
        hit == ~force_refresh /\ i # 0
        m0 == IF hit /\ entry_is_expired(m.client_cache[i], now)
              THEN [m EXCEPT !.client_cache = RemoveAt(@, i)]
              ELSE m
        Created(c) ==
            IF ~c.ok THEN RaiseFrom(c, "AWSServiceError")
            ELSE Return([c.m EXCEPT !.client_cache =
                            _cache_client(@, c.val, profile_name, region,
                                          service_name, now)],
                        c.val)
        Checked(av, g) ==
            IF av.val = "unavailable"
            THEN Raise(av.m, <<"AWSServiceError">>)
            ELSE Created(_create_client_with_retry(av.m, env, g.val,
                                                   service_name, region))
        WithSession(g) ==
            IF ~g.ok THEN RaiseFrom(g, "AWSServiceError")
            ELSE Checked(check_service_availability(g.m, env, service_name,
                                                    region), g)
    IN  IF hit /\ ~entry_is_expired(m.client_cache[i], now)
        THEN Return(m, m.client_cache[i].client)
        ELSE WithSession(get_session(m0, env, profile_name, region,
                                     FALSE, 0))

get_client(m, env, service_name, profile_arg, region_arg, force_refresh) ==
    LET profile_name == IF profile_arg = None THEN "default" ELSE profile_arg
        region == IF region_arg = None THEN "us-east-1" ELSE region_arg
        key == key_of(profile_name, region, service_name)
        i == IndexOf(m.client_cache, key)
        hit == ~force_refresh /\ i # 0
        m0 == IF hit /\ entry_is_expired(m.client_cache[i], now)
              THEN [m EXCEPT !.client_cache = RemoveAt(@, i)]
              ELSE m
        Created(c) ==
            IF ~c.ok THEN RaiseFrom(c, "AWSServiceError")
            ELSE Return([c.m EXCEPT !.client_cache =
                            _cache_client(@, c.val, profile_name, region,
                                          service_name, now)],
                        c.val)
        WithSession(g) ==
            IF ~g.ok THEN RaiseFrom(g, "AWSServiceError")
            ELSE Created(_create_client_with_retry(g.m, env, g.val,
                                                   service_name, region))
        Checked(av) ==
            IF av.val = "unavailable"
            THEN Raise(av.m, <<"AWSServiceError">>)
            ELSE WithSession(get_session(av.m, env, profile_name, region,
                                         FALSE, 0))
    IN  IF hit /\ ~entry_is_expired(m.client_cache[i], now)
        THEN Return(m, m.client_cache[i].client)
        ELSE Checked(check_service_availability(m0, env, service_name,
                                                region))

----------------------------------------------------------------------------
(* aws/credentials.py: AWSCredentialsReader                                *)
(*                                                                         *)
(* The reader's clock, datetime.now(), is counted in minutes.  A section   *)
(* is a function from the keys it holds to their values, "" being an empty *)
(* value; a parsed file (ConfigParser) is a function from section names to *)
(* sections.  A section name of the config file is the sequence of its     *)
(* space-separated words: "profile prod" is <<"profile", "prod">>.         *)
(* parsed_at, reads and failed are not fields of the program: they record  *)
(* when the cached content of a file was parsed, the files the pending     *)
(* operation tried to parse, and the files whose last parse failed.        *)

_cache_ttl == 5                \* timedelta(minutes=5)
NoTimestamp == -1              \* _cache_timestamp = None
AWS_DEFAULT_REGION == "us-east-1"

NoSections == <<>>             \* ConfigParser()
NoCache == [loaded |-> FALSE, sections |-> NoSections]
File(readable, sections) == [readable |-> readable, sections |-> sections]
Reader(credentials_file, config_file) ==
    [credentials_file |-> credentials_file, config_file |-> config_file,
     _credentials_cache |-> NoCache, _config_cache |-> NoCache,
     _cache_timestamp |-> NoTimestamp, clock |-> 0,
     parsed_at |-> [credentials_file |-> NoTimestamp,
                    config_file |-> NoTimestamp],
     reads |-> <<>>, failed |-> {}]
NoReader == Reader(File(TRUE, NoSections), File(TRUE, NoSections))

\* dict.get(key)
Get(d, key) == IF key \in DOMAIN d THEN d[key] ELSE None
\* bool(value) of an optional string
Truthy(v) == v # None /\ v # ""
\* dict.update(e)
Update(d, e) ==
    [k \in DOMAIN d \cup DOMAIN e |-> IF k \in DOMAIN e THEN e[k] ELSE d[k]]
\* {key: d[key] for key in keys if key in d}
Only(d, keys) == [k \in DOMAIN d \cap keys |-> d[k]]

_should_refresh_cache(rd) ==
    IF rd._cache_timestamp = NoTimestamp THEN TRUE
    ELSE rd.clock - rd._cache_timestamp > _cache_ttl

\* A file that does not exist reads as File(TRUE, NoSections)
_read_ini_file(rd, file) ==
    LET tried == [rd EXCEPT !.reads = Append(@, file)]
    IN  IF rd[file].readable
        THEN Return([tried EXCEPT !.failed = @ \ {file}], rd[file].sections)
        ELSE Raise([tried EXCEPT !.failed = @ \cup {file}],
                   <<"AWSCredentialFileError">>)

\* The assignments of a loader after _read_ini_file returned
Parsed_Failure(r, rd, file, cache) ==
    IF ~r.ok
    THEN Raise([r.m EXCEPT ![cache] = [loaded |-> TRUE,
                                       sections |-> NoSections],
                           !._cache_timestamp = rd.clock],
               r.err)
    ELSE Return([r.m EXCEPT ![cache] = [loaded |-> TRUE, sections |-> r.val],
                            !._cache_timestamp = rd.clock,
                            !.parsed_at[file] = rd.clock],
                r.val)

Parsed(r, rd, file, cache) ==
    IF ~r.ok THEN r
    ELSE Return([r.m EXCEPT ![cache] = [loaded |-> TRUE, sections |-> r.val],
                            !._cache_timestamp = rd.clock,
                            !.parsed_at[file] = rd.clock],
                r.val)

_load_credentials_file(rd) ==
    IF ~rd._credentials_cache.loaded \/ _should_refresh_cache(rd)
    THEN Parsed(_read_ini_file(rd, "credentials_file"), rd,
                "credentials_file", "_credentials_cache")
    ELSE Return(rd, rd._credentials_cache.sections)

_load_config_file(rd) ==
    IF ~rd._config_cache.loaded \/ _should_refresh_cache(rd)
    THEN Parsed(_read_ini_file(rd, "config_file"), rd,
                "config_file", "_config_cache")
    ELSE Return(rd, rd._config_cache.sections)

NoCredential ==
    [aws_access_key_id |-> None, aws_secret_access_key |-> None,
     aws_session_token |-> None]

_parse_credentials_section_AccessKey(section_data) ==
    IF ~Truthy(Get(section_data, "aws_access_key_id"))
    THEN NoCredential
    ELSE [aws_access_key_id |-> section_data["aws_access_key_id"],
          aws_secret_access_key |-> Get(section_data,
                                        "aws_secret_access_key"),
          aws_session_token |-> Get(section_data, "aws_session_token")]

_parse_credentials_section(section_data) ==
    IF ~Truthy(Get(section_data, "aws_access_key_id"))
       \/ ~Truthy(Get(section_data, "aws_secret_access_key"))
    THEN NoCredential
    ELSE [aws_access_key_id |-> section_data["aws_access_key_id"],
          aws_secret_access_key |-> section_data["aws_secret_access_key"],
          aws_session_token |-> Get(section_data, "aws_session_token")]

ConfigKeys ==
    {"region", "output", "role_arn", "source_profile", "external_id",
     "mfa_serial", "role_session_name", "sso_start_url", "sso_region",
     "sso_account_id", "sso_role_name", "sso_session",
     "web_identity_token_file", "credential_source"}

_parse_config_section(section_data) == Only(section_data, ConfigKeys)

\* The section of the config file that holds a profile
config_section_name(profile_name) ==
    IF profile_name = "default" THEN <<"default">>
    ELSE <<"profile", profile_name>>

_resolve_sso_session(rd, profile_data) ==
    LET name == <<"sso-session", Get(profile_data, "sso_session")>>
        Merged(r) ==
            IF ~r.ok THEN Return(r.m, profile_data)
            ELSE IF name \in DOMAIN r.val
            THEN Return(r.m, Update(profile_data,
                                    Only(r.val[name],
                                         {"sso_start_url", "sso_region",
                                          "sso_registration_scopes"})))
            ELSE Return(r.m, profile_data)
    IN  IF "sso_session" \notin DOMAIN profile_data
        THEN Return(rd, profile_data)
        ELSE Merged(_load_config_file(rd))

\* sorted(names): the names of the model in alphabetical order
NameOrder == <<"default", "dev", "ghost", "prod">>
sorted(names) == SelectSeq(NameOrder, LAMBDA n : n \in names)

\* The profile a section name of the config file stands for, if any
ProfileOf(section_name) ==
    IF section_name = <<"default">> THEN {"default"}
    ELSE IF Len(section_name) = 2 /\ section_name[1] = "profile"
    THEN {section_name[2]}
    ELSE {}

get_profile_names(rd) ==
    LET FromConfig(names, r) ==
            IF ~r.ok THEN Return(r.m, sorted(names))
            ELSE Return(r.m, sorted(names \cup
                                    UNION {ProfileOf(s) : s \in DOMAIN r.val}))
        FromCredentials(r) ==
            FromConfig(IF r.ok THEN DOMAIN r.val ELSE {},
                       _load_config_file(r.m))
    IN  FromCredentials(_load_credentials_file(rd))

AWSProfileType(data) ==
    IF Truthy(Get(data, "sso_start_url")) \/ Truthy(Get(data, "sso_session"))
    THEN "sso"
    ELSE IF Truthy(Get(data, "role_arn")) THEN "iam_role"
    ELSE IF Truthy(Get(data, "web_identity_token_file")) THEN "federated"
    ELSE IF "credentials" \in DOMAIN data
            /\ Truthy(data["credentials"].aws_session_token)
    THEN "session"
    ELSE "iam_user"

AWSProfile_Unranked(data) ==
    [name |-> data["name"], region |-> Get(data, "region"),
     profile_type |-> IF Truthy(Get(data, "role_arn")) THEN "iam_role"
                      ELSE AWSProfileType(data),
     role_arn |-> Get(data, "role_arn"),
     source_profile |-> Get(data, "source_profile"),
     sso_start_url |-> Get(data, "sso_start_url"),
     sso_session |-> Get(data, "sso_session"),
     web_identity_token_file |-> Get(data, "web_identity_token_file"),
     credentials |-> IF "credentials" \in DOMAIN data
                     THEN data["credentials"] ELSE NoCredential]

AWSProfile(data) ==
    [name |-> data["name"], region |-> Get(data, "region"),
     profile_type |-> AWSProfileType(data),
     role_arn |-> Get(data, "role_arn"),
     source_profile |-> Get(data, "source_profile"),
     sso_start_url |-> Get(data, "sso_start_url"),
     sso_session |-> Get(data, "sso_session"),
     web_identity_token_file |-> Get(data, "web_identity_token_file"),
     credentials |-> IF "credentials" \in DOMAIN data
                     THEN data["credentials"] ELSE NoCredential]

NoProfile == AWSProfile([k \in {"name"} |-> None])

\* read_profile once both files have been consulted
Built(rd, credentials, profile_data) ==
    LET NotFound(r) ==
            \* val: the available profiles the message lists
            [Raise(r.m, <<"AWSProfileNotFoundError">>) EXCEPT !.val = r.val]
    IN  IF credentials = NoCredential
           /\ DOMAIN profile_data \cap {"role_arn", "sso_start_url",
                                        "sso_session",
                                        "web_identity_token_file"} = {}
        THEN NotFound(get_profile_names(rd))
        ELSE IF credentials # NoCredential
        THEN Return(rd, AWSProfile(Update(profile_data,
                                 [k \in {"credentials"} |-> credentials])))
        ELSE Return(rd, AWSProfile(profile_data))

read_profile(rd, profile_name) ==
    LET name == [k \in {"name"} |-> profile_name]
        section == config_section_name(profile_name)
        Resolved(credentials, r) == Built(r.m, credentials, r.val)
        Configured(credentials, r) ==
            IF r.ok /\ section \in DOMAIN r.val
            THEN Resolved(credentials,
                          _resolve_sso_session(r.m,
                              Update(name,
                                     _parse_config_section(r.val[section]))))
            ELSE Built(r.m, credentials, name)
        Credentialed(r) ==
            Configured(IF r.ok /\ profile_name \in DOMAIN r.val
                       THEN _parse_credentials_section(r.val[profile_name])
                       ELSE NoCredential,
                       _load_config_file(r.m))
    IN  Credentialed(_load_credentials_file(rd))

RECURSIVE resolve_profile_chain_from(_, _, _, _)
\* One turn of the while loop of resolve_profile_chain
resolve_profile_chain_from(rd, current_profile, visited, chain) ==
    LET Read(r) ==
            IF r.ok
            THEN resolve_profile_chain_from(r.m, r.val.source_profile,
                                            visited \cup {current_profile},
                                            Append(chain, current_profile))
            ELSE IF Head(r.err) = "AWSProfileNotFoundError"
            THEN Return(r.m, Append(chain, current_profile))
            ELSE r
    IN  IF ~Truthy(current_profile) THEN Return(rd, chain)
        ELSE IF current_profile \in visited
        THEN \* val: the path the message reports
             [Raise(rd, <<"AWSCredentialError">>) EXCEPT !.val = chain]
        ELSE Read(read_profile(rd, current_profile))

resolve_profile_chain_Unguarded(rd, profile_name) ==
    LET r == resolve_profile_chain_from(rd, profile_name, {}, <<>>)
    IN  IF r.ok THEN r ELSE Return(r.m, r.val)

resolve_profile_chain_Readable(rd, profile_name) ==
    LET Kept(r, p) ==
            IF r.ok /\ ~p.ok
            THEN Return(p.m, SubSeq(r.val, 1, Len(r.val) - 1))
            ELSE r
        Ended(r) ==
            IF r.ok /\ r.val # <<>>
            THEN Kept(r, read_profile(r.m, r.val[Len(r.val)]))
            ELSE r
    IN  Ended(resolve_profile_chain_from(rd, profile_name, {}, <<>>))

resolve_profile_chain_Closed(rd, profile_name) ==
    LET r == resolve_profile_chain_from(rd, profile_name, {}, <<>>)
    IN  IF r.ok /\ Len(r.val) > 1
        THEN Return(r.m, Append(r.val, r.val[1]))
        ELSE r

resolve_profile_chain(rd, profile_name) ==
    resolve_profile_chain_from(rd, profile_name, {}, <<>>)

RECURSIVE first_region(_, _, _)
\* The for loop of get_effective_region from the i-th profile of the chain
first_region(rd, profile_chain, i) ==
    LET Read(r) ==
            IF ~r.ok THEN Return(r.m, AWS_DEFAULT_REGION)
            ELSE IF Truthy(r.val.region) THEN Return(r.m, r.val.region)
            ELSE first_region(r.m, profile_chain, i + 1)
    IN  IF i > Len(profile_chain) THEN Return(rd, AWS_DEFAULT_REGION)
        ELSE Read(read_profile(rd, profile_chain[i]))

get_effective_region_Own(rd, profile_name) ==
    LET Read(r) ==
            IF r.ok /\ Truthy(r.val.region) THEN Return(r.m, r.val.region)
            ELSE Return(r.m, AWS_DEFAULT_REGION)
    IN  Read(read_profile(rd, profile_name))

get_effective_region(rd, profile_name) ==
    LET Resolved(r) ==
            IF ~r.ok THEN Return(r.m, AWS_DEFAULT_REGION)
            ELSE first_region(r.m, r.val, 1)
    IN  Resolved(resolve_profile_chain(rd, profile_name))

----------------------------------------------------------------------------
(* The state machine of the session manager *)

ProfileArgs == {None, "prod", "sso", "ghost"}
RoleArgs == {AuditArn}
SourceArgs == {None, "prod", "ghost"}
Envs == [failAt : 0..MaxCalls, exp : ExpirationOffsets]

NoReport == [valid |-> FALSE, identity |-> NoCreds, error |-> <<>>]
NoClient == [id |-> 0, service |-> None, region |-> None,
             identity |-> NoCreds]

\* What is remembered of the last operation.  before, cbefore, abefore: the
\* session cache, the client cache and the availability cache when it
\* started; firstId, firstClient: the first session id and client it could
\* draw
Last(op, profile, region, force, m, r) ==
    [op |-> op, profile |-> profile, region |-> region, force |-> force,
     service |-> None, role |-> NoArn,
     ok |-> r.ok, err |-> r.err,
     handle |-> NoHandle, report |-> NoReport, flag |-> FALSE, count |-> 0,
     client |-> NoClient, availability |-> None,
     calls |-> r.m.calls, delays |-> r.m.delays,
     before |-> m.sessions, firstId |-> m.nextId + 1,
     cbefore |-> m.client_cache, firstClient |-> m.nextClient + 1,
     abefore |-> m.service_availability_cache]

\* No operation has returned a result the caller has not yet taken
Idle ==
    [op |-> "none", profile |-> None, region |-> None, force |-> FALSE,
     service |-> None, role |-> NoArn, ok |-> TRUE, err |-> <<>>,
     handle |-> NoHandle, report |-> NoReport, flag |-> FALSE, count |-> 0,
     client |-> NoClient, availability |-> None, calls |-> <<>>,
     delays |-> <<>>,
     before |-> <<>>, firstId |-> 0, cbefore |-> <<>>, firstClient |-> 0,
     abefore |-> <<>>]

Init ==
    /\ now = 0
    /\ ticks = 0
    /\ profiles \in ProfileConfigs
    /\ reader = NoReader
    /\ sessions = <<>>
    /\ nextId = 0
    /\ client_cache = <<>>
    /\ nextClient = 0
    /\ service_availability_cache = <<>>
    /\ last = Idle
    /\ tasks = <<>>

factory_vars == <<client_cache, nextClient, service_availability_cache>>

\* The session manager's part of the state after an operation
Commit(r) ==
    /\ last = Idle
    /\ r.m.nextId <= MaxIds
    /\ sessions' = r.m.sessions
    /\ nextId' = r.m.nextId
    /\ UNCHANGED tasks

GetSession ==
    \E profile_name \in ProfileArgs, region \in RegionArgs,
       force_refresh \in BOOLEAN, env \in Envs :
        LET Done(r) ==
                /\ Commit(r)
                /\ last' = [Last("get_session", profile_name, region,
                                 force_refresh, Start, r)
                              EXCEPT !.handle = r.val]
        IN  /\ Done(get_session(Start, env, profile_name, region,
                                force_refresh, 0))
            /\ UNCHANGED <<now, ticks, profiles, reader, factory_vars>>

AssumeRole ==
    \E role_arn \in RoleArgs, source_profile \in SourceArgs,
       region \in {None}, env \in Envs :
        LET Done(r) ==
                /\ Commit(r)
                /\ last' = [Last("assume_role", source_profile, region,
                                 FALSE, Start, r)
                              EXCEPT !.handle = r.val, !.role = role_arn]
        IN  /\ Done(assume_role(Start, env, role_arn, source_profile,
                                region, 0))
            /\ UNCHANGED <<now, ticks, profiles, reader, factory_vars>>

ValidateCredentials ==
    \E profile_name \in ProfileArgs, region \in RegionArgs, env \in Envs :
        LET Done(r) ==
                /\ Commit(r)
                /\ last' = [Last("validate_credentials", profile_name,
                                 region, FALSE, Start, r)
                              EXCEPT !.report =
                                        IF r.ok THEN r.val ELSE NoReport]
        IN  /\ Done(validate_credentials(Start, env, profile_name, region))
            /\ UNCHANGED <<now, ticks, profiles, reader, factory_vars>>

RefreshCredentials ==
    \E profile_name \in ProfileArgs, env \in Envs :
        LET Done(r) ==
                /\ Commit(r)
                /\ last' = [Last("refresh_credentials", profile_name, None,
                                 TRUE, Start, r)
                              EXCEPT !.flag = IF r.ok THEN r.val ELSE FALSE]
        IN  /\ Done(refresh_credentials(Start, env, profile_name))
            /\ UNCHANGED <<now, ticks, profiles, reader, factory_vars>>

CleanupExpiredSessions ==
    LET r == cleanup_expired_sessions(Start)
    IN  /\ Commit(r)
        /\ last' = [Last("cleanup_expired_sessions", None, None, FALSE,
                         Start, r)
                      EXCEPT !.count = r.val]
        /\ UNCHANGED <<now, ticks, profiles, reader, factory_vars>>

\* Time passes between operations
Advance(steps) ==
    \E d \in steps :
        /\ last = Idle
        /\ ticks < MaxTicks
        /\ now' = now + d
        /\ ticks' = ticks + 1
        /\ UNCHANGED <<profiles, reader, sessions, nextId, factory_vars, last, tasks>>

Tick == Advance(TickSteps)

\* The caller takes the result of the operation
Respond ==
    /\ last # Idle
    /\ last' = Idle
    /\ UNCHANGED <<now, ticks, profiles, reader, sessions, nextId, factory_vars,
                   tasks>>

Next ==
    \/ GetSession
    \/ AssumeRole
    \/ ValidateCredentials
    \/ RefreshCredentials
    \/ CleanupExpiredSessions
    \/ Tick
    \/ Respond

Spec == Init /\ [][Next]_vars

----------------------------------------------------------------------------
(* The state machine of the client factory, over a session manager whose   *)
(* sessions expire and are swept                                           *)

FactoryConfigs == {ProfileTable(1)}
ServiceArgs == {"s3"}
ClientProfileArgs == {None, "prod", "ghost"}
ClientRegionArgs == {None}
FactoryTickSteps == {1, 3}
AttemptOutcomes ==
    {<<"ok">>, <<"smoke">>, <<"cred">>, <<"conn", "ok">>, <<"other", "cred">>,
     <<"conn", "other", "ok">>, <<"conn", "conn", "other">>,
     <<"other", "other", "conn">>}
FactoryEnvs ==
    [failAt : {0, 1}, exp : {default_session_duration},
     lookup : BOOLEAN, attempts : AttemptOutcomes]

AvailabilityServiceArgs == {"iam", "glue"}
AvailabilityEnvs ==
    [failAt : {0}, exp : {default_session_duration}, lookup : BOOLEAN,
     attempts : {<<"ok">>}]

InitFactory ==
    /\ now = 0
    /\ ticks = 0
    /\ profiles \in FactoryConfigs
    /\ reader = NoReader
    /\ sessions = <<>>
    /\ nextId = 0
    /\ client_cache = <<>>
    /\ nextClient = 0
    /\ service_availability_cache = <<>>
    /\ last = Idle
    /\ tasks = <<>>

CommitFactory(r) ==
    /\ Commit(r)
    /\ r.m.nextClient <= MaxClients
    /\ client_cache' = r.m.client_cache
    /\ nextClient' = r.m.nextClient
    /\ service_availability_cache' = r.m.service_availability_cache

GetClientOf(services, profile_args, region_args, envs) ==
    \E service_name \in services, profile_name \in profile_args,
       region \in region_args, force_refresh \in BOOLEAN, env \in envs :
        LET Done(r) ==
                /\ CommitFactory(r)
                /\ last' = [Last("get_client", profile_name, region,
                                 force_refresh, Start, r)
                              EXCEPT !.service = service_name,
                                     !.client =
                                        IF r.ok THEN r.val ELSE NoClient]
        IN  /\ Done(get_client(Start, env, service_name, profile_name,
                               region, force_refresh))
            /\ UNCHANGED <<now, ticks, profiles, reader>>

GetClient ==
    GetClientOf(ServiceArgs, ClientProfileArgs, ClientRegionArgs, FactoryEnvs)

CheckServiceAvailability ==
    \E service_name \in AvailabilityServiceArgs, region \in Regions,
       env \in AvailabilityEnvs :
        LET r == check_service_availability(Start, env, service_name, region)
        IN  /\ CommitFactory(r)
            /\ last' = [Last("check_service_availability", None, region,
                             FALSE, Start, r)
                          EXCEPT !.service = service_name,
                                 !.availability = r.val]
            /\ UNCHANGED <<now, ticks, profiles, reader>>

CleanupExpiredClients ==
    LET kept == cleanup_expired_clients(client_cache, now)
        r == Return([Start EXCEPT !.client_cache = kept],
                    Len(client_cache) - Len(kept))
    IN  /\ CommitFactory(r)
        /\ last' = [Last("cleanup_expired_clients", None, None, FALSE,
                         Start, r)
                      EXCEPT !.count = r.val]
        /\ UNCHANGED <<now, ticks, profiles, reader>>

\* Time passes between the factory's operations
FactoryTick == Advance(FactoryTickSteps)

NextFactory ==
    \/ GetClient
    \/ CleanupExpiredClients
    \/ CleanupExpiredSessions
    \/ FactoryTick
    \/ Respond

SpecFactory == InitFactory /\ [][NextFactory]_vars

----------------------------------------------------------------------------
(* The client factory asked about regions, a day passing between checks   *)

NextAvailability ==
    \/ CheckServiceAvailability
    \/ Tick
    \/ Respond

SpecAvailability == InitFactory /\ [][NextAvailability]_vars

----------------------------------------------------------------------------
(* The client factory asked for clients of a service that one of the       *)
(* regions does not offer                                                  *)

RegionalEnvs ==
    [failAt : {0, 1}, exp : {default_session_duration}, lookup : BOOLEAN,
     attempts : {<<"ok">>, <<"cred">>}]

GetRegionalClient ==
    GetClientOf({"glue"}, {None}, {"eu-west-1"}, RegionalEnvs)

NextRegional ==
    \/ GetRegionalClient
    \/ FactoryTick
    \/ Respond

SpecRegional == InitFactory /\ [][NextRegional]_vars

----------------------------------------------------------------------------
(* Vocabulary of the properties.  While a result is pending (last # Idle)  *)
(* the clock has not moved since the operation ran.                        *)

ArgName(a) == IF a = None THEN "default" ELSE a
Known(a) == ArgName(a) \in DOMAIN profiles
\* The region get_session resolves: region or profile.region or "us-east-1"
KeyRegion(a, region_arg) ==
    IF region_arg # None THEN region_arg
    ELSE IF profiles[ArgName(a)].region # None
    THEN profiles[ArgName(a)].region
    ELSE "us-east-1"

Range(seq) == {seq[i] : i \in 1..Len(seq)}
Ids(ss) == {s.session_id : s \in Range(ss)}
\* Sessions the pending operation put in the cache
Added == {s \in Range(sessions) : s.session_id >= last.firstId}
Fresh(s) == ~is_expired(s, now) /\ ~should_refresh(s, now)
\* Fresh sessions for the key of the pending get_session, as it found them
FreshForKey ==
    {s \in Range(last.before) :
        /\ s.profile_name = ArgName(last.profile)
        /\ s.region = KeyRegion(last.profile, last.region)
        /\ Fresh(s)}
Trace(site, call, lvl) ==
    {i \in 1..Len(last.calls) :
        /\ last.calls[i].site = site
        /\ last.calls[i].call = call
        /\ last.calls[i].lvl = lvl}
Requests == {i \in 1..Len(last.calls) : last.calls[i].call # "enter"}
\* The pending get_session went through _create_new_session
Missed == Trace("_create_new_session", "enter", 0) # {}

----------------------------------------------------------------------------
\* C1: whatever operations have run, every cached Session that the SSO
\* strategy created has no credentials
C1_SsoSessionsCarryNoCredentials ==
    \A s \in Range(sessions) : s.origin = "sso" => s.credentials = NoCreds

\* Two SSO sessions are cached at once, after an operation other than
\* get_session ran
C1_Witness ==
    /\ Len(sessions) >= 2
    /\ \A s \in Range(sessions) : s.origin = "sso"
    /\ last.op = "refresh_credentials"

\* C2 (as claimed): a get_session without force_refresh that finds a fresh
\* Session for its key returns a handle built from such a Session, creates
\* nothing, sends no request and leaves the cache as it was
C2_FreshSessionIsAlwaysAHit ==
    (/\ last.op = "get_session"
     /\ ~last.force
     /\ Known(last.profile)
     /\ FreshForKey # {})
    => /\ last.ok
       /\ ~Missed
       /\ Requests = {}
       /\ sessions = last.before
       /\ last.handle.session_id \in {s.session_id : s \in FreshForKey}

\* C3: a get_session of a role profile that misses the cache enters
\* get_session of the source profile before it sends its assume-role request,
\* sends that request once and after everything of the source, and the Session
\* cached under the profile is a role session with the profile's role ARN
C3_RoleSessionAfterSourceThenOneRequest ==
    (/\ last.op = "get_session"
     /\ Known(last.profile)
     /\ profiles[ArgName(last.profile)].profile_type = "iam_role"
     /\ Missed)
    => LET P == ArgName(last.profile)
           sent == Trace("assume_role", "sts:AssumeRole", 0)
           src == {i \in Trace("get_session", "enter", 1) :
                     last.calls[i].who = profiles[P].source_profile}
       IN  /\ Cardinality(sent) <= 1
           /\ src # {}
           /\ \A j \in sent :
                /\ \E i \in src : i < j
                /\ \A i \in 1..Len(last.calls) :
                      last.calls[i].lvl > 0 => i < j
           /\ \A s \in Added :
                s.profile_name = P =>
                    /\ Cardinality(sent) = 1
                    /\ s.is_role_session
                    /\ s.role_arn = profiles[P].role_arn

\* The source session was itself created by the call and the role session
\* is cached under the profile
C3_Witness ==
    /\ last.op = "get_session"
    /\ last.profile = "prod"
    /\ last.ok
    /\ Trace("_create_new_session", "enter", 1) # {}
    /\ \E s \in Added : s.profile_name = "prod" /\ s.is_role_session

\* C4 (as claimed): the Session cached under a role profile expires when the
\* assume-role response says
C4_RoleSessionExpiryIsServiceExpiration ==
    (/\ last.op = "get_session"
     /\ Known(last.profile)
     /\ profiles[ArgName(last.profile)].profile_type = "iam_role")
    => \A s \in Added :
         s.profile_name = ArgName(last.profile) =>
            \A j \in Trace("assume_role", "sts:AssumeRole", 0) :
                s.expires_at = last.calls[j].exp

\* C5: refresh_credentials never raises; for a profile that exists it goes
\* through session creation whatever is cached; it returns true exactly when
\* the new Session was cached and every request up to and including the
\* validation probe succeeded
C5_RefreshBypassesCacheAndReturnsSuccess ==
    last.op = "refresh_credentials" =>
        /\ last.ok
        /\ Known(last.profile) => Missed
        /\ last.flag <=>
             /\ Known(last.profile)
             /\ \E s \in Added : /\ s.session_id = last.firstId
                                 /\ s.profile_name = ArgName(last.profile)
             /\ \A i \in Requests : last.calls[i].ok
             /\ Len(last.calls) \in
                    Trace("_validate_session", "sts:GetCallerIdentity", 0)

\* A refresh succeeded although a fresh Session for the key was cached
C5_Witness ==
    /\ last.op = "refresh_credentials"
    /\ last.flag
    /\ FreshForKey # {}
    /\ Len(sessions) = Len(last.before) + 1

\* C6: validate_credentials never raises; it reports valid, with the
\* identity, exactly when the session was obtained and its own probe
\* succeeded, and reports an error otherwise
C6_ValidateReturnsResultNeverRaises ==
    last.op = "validate_credentials" =>
        /\ last.ok
        /\ last.report.valid <=>
             /\ Known(last.profile)
             /\ \A i \in Requests : last.calls[i].ok
             /\ Trace("validate_credentials", "sts:GetCallerIdentity", 0) # {}
        /\ last.report.valid =>
             /\ last.report.identity # NoCreds
             /\ last.report.error = <<>>
        /\ ~last.report.valid => last.report.error # <<>>

\* The session was obtained and validate_credentials' own probe failed
C6_Witness ==
    /\ last.op = "validate_credentials"
    /\ ~last.report.valid
    /\ \E i \in Trace("validate_credentials", "sts:GetCallerIdentity", 0) :
            ~last.calls[i].ok

\* C7: get_session fails only with a profile-not-found or session error; on a
\* miss it returns only after exactly one probe of the handle, its last step,
\* succeeded; a failed probe of the handle ends it with a session error
C7_GetSessionTypedErrorsAndProbe ==
    last.op = "get_session" =>
        LET probes == Trace("_validate_session", "sts:GetCallerIdentity", 0)
        IN  /\ ~last.ok =>
                 Head(last.err) \in
                    SessionErrors \cup {"AWSProfileNotFoundError"}
            /\ (last.ok /\ Missed) =>
                 /\ Cardinality(probes) = 1
                 /\ \A j \in probes : last.calls[j].ok /\ j = Len(last.calls)
            /\ \A j \in probes :
                 ~last.calls[j].ok =>
                    ~last.ok /\ Head(last.err) = "AWSSessionError"

\* The probe of the new handle failed
C7_Witness ==
    /\ last.op = "get_session"
    /\ ~last.ok
    /\ \E j \in Trace("_validate_session", "sts:GetCallerIdentity", 0) :
            ~last.calls[j].ok

\* C8: an assume_role invocation sends at most one assume-role request; when
\* it fails it raises a session error that chains the cause, and it has put
\* no Session for its role in the cache
C8_AssumeRoleSingleAttempt ==
    /\ \A L \in {e.lvl : e \in Range(last.calls)} :
          /\ Cardinality(Trace("assume_role", "enter", L)) <= 1
          /\ Cardinality(Trace("assume_role", "sts:AssumeRole", L))
                <= Cardinality(Trace("assume_role", "enter", L))
    /\ (last.op = "assume_role" /\ ~last.ok) =>
          /\ Head(last.err) = "AWSSessionError"
          /\ Len(last.err) >= 2
          /\ ~\E s \in Added :
                s.origin = "assume_role" /\ s.role_arn = last.role

\* The request of the invocation failed after the source profile's own role
\* had been assumed
C8_Witness ==
    /\ last.op = "assume_role"
    /\ ~last.ok
    /\ \E j \in Trace("assume_role", "sts:AssumeRole", 0) : ~last.calls[j].ok
    /\ \E j \in Trace("assume_role", "sts:AssumeRole", 1) : last.calls[j].ok

\* C9: the session cache never holds more than max_sessions entries; one
\* insertion into a cache of max_sessions unexpired Sessions leaves
\* max_sessions entries and drops one of least created_at
C9_SessionCacheBounded ==
    /\ Len(sessions) <= max_sessions
    /\ (/\ last # Idle
        /\ Len(last.before) = max_sessions
        /\ \A s \in Range(last.before) : ~is_expired(s, now)
        /\ Cardinality(Added) = 1)
       => /\ Len(sessions) = max_sessions
          /\ \E e \in Range(last.before) :
                /\ Range(sessions) = (Range(last.before) \ {e}) \cup Added
                /\ \A s \in Range(last.before) : e.created_at <= s.created_at

\* A full cache of Sessions created at different times took one more
C9_Witness ==
    /\ last # Idle
    /\ Len(last.before) = max_sessions
    /\ \A s \in Range(last.before) : ~is_expired(s, now)
    /\ Cardinality(Added) = 1
    /\ \E s, t \in Range(last.before) : s.created_at < t.created_at


\* The entry the pending get_client found under its key (0: none), and
\* whether that entry's 60 minutes had not elapsed
FoundEntry ==
    IndexOf(last.cbefore,
            key_of(ArgName(last.profile),
                   IF last.region = None THEN "us-east-1" ELSE last.region,
                   last.service))
Unelapsed(e) == now - e.created_at < ClientTTL
\* The pending get_client returned a client that was in the cache
ReturnedCached ==
    last.ok /\ \E e \in Range(last.cbefore) : e.client = last.client

\* C10: get_client without force_refresh returns the cached client of its
\* key exactly when an entry is cached for the key whose TTL has not
\* elapsed; such a hit calls neither the session manager nor the identity
\* service and leaves both caches as they were, whatever the state of the
\* session cache; an entry whose TTL has elapsed is removed from the cache
\* and its client is not returned
C10_ClientCacheHitIffEntryUnelapsed ==
    (last.op = "get_client" /\ ~last.force) =>
        LET i == FoundEntry
            live == i # 0 /\ Unelapsed(last.cbefore[i])
        IN  /\ ReturnedCached <=> live
            /\ live =>
                /\ last.client = last.cbefore[i].client
                /\ last.calls = <<>>
                /\ sessions = last.before
                /\ nextId = last.firstId - 1
                /\ client_cache = last.cbefore
            /\ (i # 0 /\ ~live) =>
                \A e \in Range(client_cache) :
                    e.client # last.cbefore[i].client

\* C10 witness: a cached client is returned for a profile none of whose
\* sessions is cached any more
C10_Witness ==
    /\ last.op = "get_client"
    /\ ~last.force
    /\ FoundEntry # 0
    /\ last.ok
    /\ last.client = last.cbefore[FoundEntry].client
    /\ last.calls = <<>>
    /\ \A s \in Range(sessions) : s.profile_name # ArgName(last.profile)

\* The elapsed case is reachable: an entry whose TTL had elapsed was found
\* and a new client was built in its place
ElapsedEntryReplaced ==
    /\ last.op = "get_client"
    /\ ~last.force
    /\ FoundEntry # 0
    /\ ~Unelapsed(last.cbefore[FoundEntry])
    /\ last.ok

\* The client cache under more keys than it has room for: three services
\* of one profile and region, clients that are built or refused, sweeps and
\* time
CacheEnvs ==
    [failAt : {0}, exp : {default_session_duration}, lookup : {TRUE},
     attempts : {<<"ok">>, <<"cred">>}]
GetCachedClient ==
    GetClientOf({"s3", "iam", "glue"}, {None}, {None}, CacheEnvs)

NextClientCache ==
    \/ GetCachedClient
    \/ CleanupExpiredClients
    \/ FactoryTick
    \/ Respond

SpecClientCache == InitFactory /\ [][NextClientCache]_vars

\* _create_client_with_retry on its own: every sequence of outcomes of the
\* three attempts, for a service with a smoke test and one without
Outcomes == {"ok", "smoke", "cred", "conn", "other"}
RetryEnvs ==
    [failAt : {0}, exp : {default_session_duration}, lookup : {TRUE},
     attempts : [1..max_retries -> Outcomes]]
RetryHandles ==
    {ProfileHandle(p, "us-east-1", 0) : p \in {"default", "prod"}}

CreateClientWithRetry ==
    \E service_name \in {"s3", "glue"}, h \in RetryHandles,
       env \in RetryEnvs :
        LET Done(r) ==
                /\ CommitFactory(r)
                /\ last' = [Last("_create_client_with_retry", h.profile_name,
                                 h.region, FALSE, Start, r)
                              EXCEPT !.service = service_name,
                                     !.client =
                                        IF r.ok THEN r.val ELSE NoClient]
        IN  /\ Done(_create_client_with_retry(Start, env, h, service_name,
                                              h.region))
            /\ UNCHANGED <<now, ticks, profiles, reader>>

NextRetry == CreateClientWithRetry \/ Respond

SpecRetry == InitFactory /\ [][NextRetry]_vars

\* Vocabulary of the client factory's traces: the region of the pending
\* get_client, its region lookups, its construction attempts
ClientRegion == IF last.region = None THEN "us-east-1" ELSE last.region
Lookups ==
    {i \in 1..Len(last.calls) :
        last.calls[i].site = "check_service_availability"}
Attempts ==
    {i \in 1..Len(last.calls) :
        last.calls[i].site = "_create_client_with_retry"}
\* What a lookup that answered says of a service in a region
Offered(service_name, region) ==
    \/ region \in EndpointRegions(service_name)
    \/ service_name \in GlobalServices
\* No entry of the client cache is new
NothingCached == \A e \in Range(client_cache) : e \in Range(last.cbefore)

\* C11: a get_client that misses the cache and whose availability check
\* answers unavailable raises a service error of its own, without entering
\* the session manager, without a construction attempt and without a new
\* cache entry; one whose lookup fails (unknown) enters the session manager,
\* attempts construction once it has a session, and never raises the bare
\* service error of the unavailable case
C11_UnavailableFailsFastUnknownProceeds ==
    (last.op = "get_client" /\ Lookups # {}) =>
        LET answered == \E i \in Lookups : last.calls[i].ok
        IN  /\ (answered /\ ~Offered(last.service, ClientRegion)) =>
                /\ ~last.ok
                /\ last.err = <<"AWSServiceError">>
                /\ Trace("get_session", "enter", 0) = {}
                /\ Attempts = {}
                /\ Requests \subseteq Lookups
                /\ sessions = last.before
                /\ nextClient = last.firstClient - 1
                /\ NothingCached
            /\ ~answered =>
                /\ Trace("get_session", "enter", 0) # {}
                /\ last.err # <<"AWSServiceError">>
                /\ (Attempts = {}) <=>
                      (~last.ok /\ Len(last.err) >= 2
                               /\ last.err[2] # "AWSServiceError")

\* C11 witness: the service is not offered in the region and the call was
\* refused before anything was built
C11_Witness ==
    /\ last.op = "get_client"
    /\ \E i \in Lookups : last.calls[i].ok
    /\ ~Offered(last.service, ClientRegion)
    /\ last.err = <<"AWSServiceError">>
    /\ Attempts = {}

\* The unknown case is reachable: the lookup failed and a client was built
UnknownProceeded ==
    /\ last.op = "get_client"
    /\ \E i \in Lookups : ~last.calls[i].ok
    /\ last.ok
    /\ Attempts # {}

\* C12: a check_service_availability whose region lookup answers returns
\* available when the region is in the service's endpoint set, and otherwise
\* available exactly when the service is on the global list, else
\* unavailable; one whose lookup fails returns unknown, never unavailable
C12_AvailabilityFollowsEndpointSetThenGlobalList ==
    (last.op = "check_service_availability" /\ Lookups # {}) =>
        LET answered == \E i \in Lookups : last.calls[i].ok
        IN  /\ Cardinality(Lookups) = 1
            /\ (answered /\ last.region \in EndpointRegions(last.service)) =>
                  last.availability = "available"
            /\ (answered /\ last.region \notin EndpointRegions(last.service)) =>
                  /\ last.availability \in {"available", "unavailable"}
                  /\ (last.availability = "available") <=>
                        (last.service \in GlobalServices)
            /\ ~answered => last.availability = "unknown"

\* C12 witness: the lookup failed and the check answered unknown
C12_Witness ==
    /\ last.op = "check_service_availability"
    /\ \E i \in Lookups : ~last.calls[i].ok
    /\ last.availability = "unknown"

\* The three answers of a lookup that succeeded are all reachable
ListedAvailable ==
    /\ last.op = "check_service_availability"
    /\ last.region \in EndpointRegions(last.service)
    /\ last.availability = "available"
GlobalAvailable ==
    /\ last.op = "check_service_availability"
    /\ last.region \notin EndpointRegions(last.service)
    /\ last.availability = "available"
UnlistedUnavailable ==
    /\ last.op = "check_service_availability"
    /\ last.availability = "unavailable"

\* A result for the pending check's (service, region) was stored by an
\* earlier check less than 24 hours ago
StoredResult ==
    /\ last.op = "check_service_availability"
    /\ last.service \in DOMAIN last.abefore
    /\ last.region \in DOMAIN last.abefore[last.service]
    /\ now - last.abefore[last.service][last.region]["cached_at"]
          < AvailabilityTTL

\* C13: a check for a (service, region) whose result was computed from a
\* successful lookup less than 24 hours ago returns that result and makes
\* no new lookup
C13_StoredResultServedWithoutLookup ==
    StoredResult =>
        /\ Lookups = {}
        /\ last.availability =
              last.abefore[last.service][last.region]["availability"]

\* The i-th construction attempt of the pending call, from 1
NthAttempt(i) ==
    last.calls[CHOOSE j \in Attempts :
                  Cardinality({k \in Attempts : k <= j}) = i]
Retried(e) == e.who \in {"conn", "other"}
Retrying == last.op = "_create_client_with_retry"

\* C14: _create_client_with_retry makes its attempts in order and stops at
\* the first success, at the first credential-class error, or after the
\* third failed attempt: every attempt before the last one failed with a
\* connectivity or unclassified error, a last attempt of that kind is the
\* third, and the call succeeds exactly when its last attempt did. The
\* sleep before attempt k+1 lasts 2^(k-1) seconds, and none follows a
\* success or a credential-class error
C14_RetryStopsAtSuccessCredentialErrorOrThirdFailure ==
    Retrying =>
        LET n == Cardinality(Attempts)
        IN  /\ n \in 1..max_retries
            /\ \A i \in 1..n : NthAttempt(i).lvl = i - 1
            /\ \A i \in 1..(n - 1) : Retried(NthAttempt(i))
            /\ Retried(NthAttempt(n)) => n = max_retries
            /\ last.ok <=> NthAttempt(n).ok
            /\ ~last.ok => /\ Len(last.err) = 2
                           /\ last.err[1] = "AWSServiceError"
                           /\ last.err[2] = CauseOf(NthAttempt(n).who)
            /\ Len(last.delays) >= n - 1
            /\ \A k \in 1..(n - 1) : last.delays[k] = 2^(k - 1)
            /\ ~Retried(NthAttempt(n)) => Len(last.delays) = n - 1

\* C14 witness: two connectivity errors, then a success on the third
\* attempt after sleeps of 1 s and 2 s
C14_Witness ==
    /\ Retrying
    /\ Cardinality(Attempts) = 3
    /\ NthAttempt(1).who = "conn"
    /\ NthAttempt(2).who = "conn"
    /\ NthAttempt(3).who = "ok"
    /\ last.ok
    /\ last.delays = <<1, 2>>

\* A credential-class error after a transient failure ends the call
CredentialErrorAfterTransient ==
    /\ Retrying
    /\ Cardinality(Attempts) = 2
    /\ NthAttempt(2).who = "cred"
    /\ ~last.ok
    /\ last.delays = <<1>>

\* Seconds slept in all by the pending call
RECURSIVE SumSeq(_)
SumSeq(q) == IF q = <<>> THEN 0 ELSE Head(q) + SumSeq(Tail(q))
TotalDelay == SumSeq(last.delays)
\* All three attempts of the pending call failed and were retriable
Exhausted ==
    /\ Retrying
    /\ Cardinality(Attempts) = max_retries
    /\ \A i \in 1..max_retries : Retried(NthAttempt(i))

\* C16 as stated: a call that exhausts its three attempts sleeps 1 s, 2 s
\* and 4 s, 7 s in all
C16_ExhaustionSleepsSevenSeconds ==
    Exhausted => (last.delays = <<1, 2, 4>> /\ TotalDelay = 7)

\* C16 amended: a call that exhausts its three attempts sleeps 1 s and 2 s
\* between them and does not sleep after the third, 3 s in all
C16_ExhaustionSleepsThreeSeconds ==
    Exhausted => (last.delays = <<1, 2>> /\ TotalDelay = 3)

\* C16 witness: three retriable failures, the call has raised
C16_Witness ==
    /\ Exhausted
    /\ ~last.ok
    /\ NthAttempt(3).who = "conn"
    /\ TotalDelay = 3

\* All three attempts of the pending get_client failed and were retriable
ExhaustedClient ==
    /\ last.op = "get_client"
    /\ Cardinality(Attempts) = max_retries
    /\ \A i \in 1..max_retries : Retried(NthAttempt(i))

\* C15: no get_client makes a fourth construction attempt; one whose three
\* attempts all fail with connectivity or unclassified errors raises a
\* service error chained to the service error of the retry loop, whose cause
\* is the error of the third attempt, and puts no entry in the client cache
C15_ExhaustedRetriesRaiseLastCause ==
    /\ last.op = "get_client" => Cardinality(Attempts) <= max_retries
    /\ ExhaustedClient =>
          /\ ~last.ok
          /\ last.client = NoClient
          /\ last.err = <<"AWSServiceError", "AWSServiceError",
                          CauseOf(NthAttempt(max_retries).who)>>
          /\ NothingCached
          /\ nextClient = last.firstClient - 1

\* C15 witness: two unclassified errors then a connectivity error, which is
\* the cause of the service error raised
C15_Witness ==
    /\ ExhaustedClient
    /\ NthAttempt(1).who = "other"
    /\ NthAttempt(3).who = "conn"
    /\ last.err = <<"AWSServiceError", "AWSServiceError",
                    "EndpointConnectionError">>

\* The pending get_client built a client and cached it
Inserted ==
    /\ last.op = "get_client"
    /\ last.ok
    /\ Attempts # {}
\* Entries cached before the pending call that had not elapsed
Live == {e \in Range(last.cbefore) : now < e.created_at + ClientTTL}
SameKey(e) ==
    /\ e.profile_name = (IF last.profile = None THEN "default"
                         ELSE last.profile)
    /\ e.region = ClientRegion
    /\ e.service_name = last.service
\* Entries of the cache other than the one for the pending call's key
Others == {e \in Range(client_cache) : ~SameKey(e)}
Oldest(es) == {o \in es : \A e \in es : o.created_at <= e.created_at}

\* C17: the client cache never holds more than max_cached_clients entries
\* nor two entries for one (profile, region, service); a get_client that
\* inserts drops the elapsed entries first and, only if max_cached_clients
\* unelapsed entries were left, one entry of the oldest created-at, then
\* stores its client under its key
C17_ClientCacheBoundedAndKeyed ==
    /\ Len(client_cache) <= max_cached_clients
    /\ \A i, j \in 1..Len(client_cache) :
          cache_key(client_cache[i]) = cache_key(client_cache[j]) => i = j
    /\ Inserted =>
          /\ \E e \in Range(client_cache) :
                SameKey(e) /\ e.client = last.client /\ e.created_at = now
          /\ IF Cardinality(Live) < max_cached_clients
             THEN Others = {e \in Live : ~SameKey(e)}
             ELSE \E o \in Oldest(Live) :
                      Others = {e \in Live \ {o} : ~SameKey(e)}

\* C17 witness: an insertion into a cache full of unelapsed entries put out
\* the oldest one
C17_Witness ==
    /\ Inserted
    /\ Cardinality(Live) = max_cached_clients
    /\ Len(client_cache) = max_cached_clients
    /\ \E o \in Oldest(Live) : o \notin Range(client_cache) /\ ~SameKey(o)

\* An insertion that only had to drop elapsed entries
InsertedAfterSweep ==
    /\ Inserted
    /\ Len(last.cbefore) = max_cached_clients
    /\ Cardinality(Live) < max_cached_clients
    /\ Others = {e \in Live : ~SameKey(e)}

----------------------------------------------------------------------------
(* Concurrent calls.  The operations are coroutines of one event loop: a   *)
(* task runs alone until it awaits something that suspends it, which are   *)
(* the run_in_executor calls and asyncio.sleep; awaiting a coroutine that  *)
(* contains neither does not yield.  A task's record says where it is      *)
(* suspended; each action below is the code between two suspensions.       *)
(* There is no lock around the caches.                                     *)
(***************************************************************************)
TaskIds == {1, 2}
NoTask ==
    [pc |-> "idle", op |-> "none", service |-> None, profile_name |-> None,
     region_arg |-> None, region |-> None, session_id |-> 0,
     handle |-> NoHandle, attempt |-> 0, client |-> NoClient,
     ok |-> TRUE, err |-> <<>>, order |-> 0, stored_at |-> 0]

InitTasks ==
    /\ now = 0
    /\ ticks = 0
    /\ profiles \in FactoryConfigs
    /\ reader = NoReader
    /\ sessions = <<>>
    /\ nextId = 0
    /\ client_cache = <<>>
    /\ nextClient = 0
    /\ service_availability_cache = <<>>
    /\ last = Idle
    /\ tasks = [t \in TaskIds |-> NoTask]

\* The rank of the next insertion a task makes into a cache
NextOrder ==
    1 + (CHOOSE n \in {tasks[t].order : t \in TaskIds} :
            \A t \in TaskIds : tasks[t].order <= n)

\* The exception leaves the operation: get_client wraps whatever leaves its
\* try block in a service error
Raised(rec, chain) ==
    [rec EXCEPT !.pc = "done", !.ok = FALSE,
                !.err = IF rec.op = "get_client"
                        THEN <<"AWSServiceError">> \o chain ELSE chain]

\* get_session returns: to its caller, or into get_client, which goes on to
\* its first session.client in the executor
GotSession(rec, h) ==
    IF rec.op = "get_client"
    THEN [rec EXCEPT !.pc = "construct", !.handle = h, !.attempt = 0]
    ELSE [rec EXCEPT !.pc = "done", !.ok = TRUE, !.handle = h]

\* self.session_cache.add_session(session), then the boto3 session is made
\* and _validate_session suspends in its identity request
Cached(rec, s) ==
    LET Made(b) ==
            IF b.ok
            THEN [rec EXCEPT !.pc = "validate", !.handle = b.val,
                             !.region = s.region,
                             !.session_id = s.session_id,
                             !.order = IF rec.op = "get_session"
                                       THEN NextOrder ELSE @]
            ELSE Raised(rec, b.err)
    IN  Made(_create_boto3_session_from_cached(Start, s))

\* get_session(profile_name, region) is called: it suspends in _get_profile,
\* which reads the profiles in the executor
CallGetSession(t, profile_arg, region_arg) ==
    /\ tasks[t].pc = "idle"
    /\ tasks' = [tasks EXCEPT ![t] =
                    [NoTask EXCEPT !.pc = "get_profile",
                                   !.op = "get_session",
                                   !.profile_name =
                                       IF profile_arg = None THEN "default"
                                       ELSE profile_arg,
                                   !.region_arg = region_arg]]
    /\ UNCHANGED <<now, ticks, profiles, reader, sessions, nextId, factory_vars,
                   last>>

\* The profiles are read.  Up to the next suspension get_session resolves
\* the region, looks the cache up and, on a miss, starts a session: a
\* standard one is built and cached at once, an SSO one suspends in its
\* identity request first
ResumeProfile(t) ==
    LET rec == tasks[t]
        name == rec.profile_name
        Miss(profile, region) ==
            IF profile.profile_type = "sso"
            THEN IF ~profile.sso_complete
                 THEN /\ tasks' = [tasks EXCEPT ![t] =
                              Raised(rec, <<"AWSSessionError",
                                            "AWSSessionError">>)]
                      /\ nextId' = nextId + 1
                      /\ UNCHANGED sessions
                 ELSE /\ tasks' = [tasks EXCEPT ![t] =
                              [rec EXCEPT !.pc = "sso_probe",
                                          !.region = region,
                                          !.session_id = nextId + 1]]
                      /\ nextId' = nextId + 1
                      /\ UNCHANGED sessions
            ELSE IF profile.credentials = NoCreds
            THEN /\ tasks' = [tasks EXCEPT ![t] =
                         Raised(rec, <<"AWSSessionError",
                                       "AWSSessionError">>)]
                 /\ nextId' = nextId + 1
                 /\ UNCHANGED sessions
            ELSE /\ sessions' =
                        add_session(sessions,
                            _create_standard_session(Start, name, profile,
                                region, nextId + 1).val, now)
                 /\ tasks' = [tasks EXCEPT ![t] =
                        Cached(rec, _create_standard_session(Start, name,
                                        profile, region, nextId + 1).val)]
                 /\ nextId' = nextId + 1
        Lookup(profile, region, cached) ==
            IF UseCached(sessions, cached)
            THEN /\ tasks' = [tasks EXCEPT ![t] =
                        GotSession(rec,
                            _create_boto3_session_from_cached(
                                Start, sessions[cached]).val)]
                 /\ UNCHANGED <<sessions, nextId>>
            ELSE Miss(profile, region)
        InRegion(profile, region) ==
            Lookup(profile, region,
                   get_session_by_profile(sessions, name, region, now))
    IN  /\ rec.pc = "get_profile"
        /\ nextId < MaxIds
        /\ IF name \notin DOMAIN profiles
           THEN /\ tasks' = [tasks EXCEPT ![t] =
                        Raised(rec, <<"AWSProfileNotFoundError">>)]
                /\ UNCHANGED <<sessions, nextId>>
           ELSE /\ profiles[name].profile_type \in {"sso", "iam_user"}
                /\ InRegion(profiles[name],
                            IF rec.region_arg # None THEN rec.region_arg
                            ELSE IF profiles[name].region # None
                            THEN profiles[name].region
                            ELSE "us-east-1")
        /\ UNCHANGED <<now, ticks, profiles, reader, factory_vars, last>>

\* The identity request of _create_sso_session answers: the session is
\* built, cached, and _validate_session suspends; or the request failed
ResumeSsoProbe(t) ==
    \E answered \in BOOLEAN :
        LET rec == tasks[t]
            s == SsoSession(rec.profile_name, rec.region, rec.session_id)
        IN  /\ rec.pc = "sso_probe"
            /\ IF answered
               THEN /\ sessions' = add_session(sessions, s, now)
                    /\ tasks' = [tasks EXCEPT ![t] = Cached(rec, s)]
               ELSE /\ tasks' = [tasks EXCEPT ![t] =
                            Raised(rec, <<"AWSSessionError",
                                          "AWSSessionError", "ClientError">>)]
                    /\ UNCHANGED sessions
            /\ UNCHANGED <<now, ticks, profiles, reader, nextId, factory_vars, last>>

\* The identity request of _validate_session answers
ResumeValidate(t) ==
    \E answered \in BOOLEAN :
        LET rec == tasks[t]
        IN  /\ rec.pc = "validate"
            /\ tasks' = [tasks EXCEPT ![t] =
                    IF answered THEN GotSession(rec, rec.handle)
                    ELSE Raised(rec, <<"AWSSessionError", "ClientError">>)]
            /\ UNCHANGED <<now, ticks, profiles, reader, sessions, nextId,
                           factory_vars, last>>

\* Time passes while tasks are suspended
TaskTickSteps == {3}
TaskTick ==
    \E d \in TaskTickSteps :
        /\ ticks < MaxTicks
        /\ now' = now + d
        /\ ticks' = ticks + 1
        /\ UNCHANGED <<profiles, reader, sessions, nextId, factory_vars, last, tasks>>

\* Two tasks call get_session for an SSO profile or a standard one
GetSessionCalled ==
    \E t \in TaskIds, p \in {"sso", None} : CallGetSession(t, p, None)
ProfileRead == \E t \in TaskIds : ResumeProfile(t)
SsoProbed == \E t \in TaskIds : ResumeSsoProbe(t)
SessionValidated == \E t \in TaskIds : ResumeValidate(t)

NextConcurrentSessions ==
    \/ GetSessionCalled
    \/ ProfileRead
    \/ SsoProbed
    \/ SessionValidated
    \/ TaskTick

SpecConcurrentSessions == InitTasks /\ [][NextConcurrentSessions]_vars

\* Two get_session calls for one (profile, region) have both missed the
\* cache, each built and cached a session of its own, and both are over
BothBuiltSessions ==
    /\ \A t \in TaskIds : /\ tasks[t].op = "get_session"
                          /\ tasks[t].pc = "done"
                          /\ tasks[t].order # 0
    /\ tasks[1].profile_name = tasks[2].profile_name
    /\ tasks[1].region = tasks[2].region
    /\ tasks[1].session_id # tasks[2].session_id
\* The sessions the cache holds for the key of task t
CachedForKeyOf(t) ==
    {s \in Range(sessions) : /\ s.profile_name = tasks[t].profile_name
                             /\ s.region = tasks[t].region}
LastInserter ==
    CHOOSE t \in TaskIds : \A u \in TaskIds : tasks[u].order <= tasks[t].order

\* C18: when two concurrent get_session calls for one (profile, region)
\* have both missed, built a session each and completed, the session cache
\* holds for that key only the session inserted last
C18_CacheKeepsOnlyLastInsertedSession ==
    BothBuiltSessions =>
        \A s \in CachedForKeyOf(1) :
            s.session_id = tasks[LastInserter].session_id

----------------------------------------------------------------------------
(* Concurrent get_client calls and sweeps of the client cache *)

\* del self.client_cache[key]: a KeyError when the key is not there
del_client(cc, key) ==
    IF IndexOf(cc, key) = 0
    THEN [cache |-> cc, raised |-> TRUE]
    ELSE [cache |-> RemoveAt(cc, IndexOf(cc, key)), raised |-> FALSE]

\* get_client is called.  Up to its first suspension it looks its key up in
\* the client cache, deletes an elapsed entry, checks the availability
\* (which awaits nothing that suspends) and calls get_session, which
\* suspends in _get_profile
CallGetClient(t, service_name, profile_arg, region_arg, env) ==
    LET profile_name == IF profile_arg = None THEN "default" ELSE profile_arg
        region == IF region_arg = None THEN "us-east-1" ELSE region_arg
        key == key_of(profile_name, region, service_name)
        i == IndexOf(client_cache, key)
        rec == [NoTask EXCEPT !.op = "get_client", !.service = service_name,
                              !.profile_name = profile_name,
                              !.region_arg = region, !.region = region]
        Checked(d, av) ==
            /\ client_cache' = d.cache
            /\ service_availability_cache' = av.m.service_availability_cache
            /\ tasks' = [tasks EXCEPT ![t] =
                  IF d.raised
                  THEN [rec EXCEPT !.pc = "done", !.ok = FALSE,
                                   !.err = <<"KeyError">>]
                  ELSE IF av.val = "unavailable"
                  THEN [rec EXCEPT !.pc = "done", !.ok = FALSE,
                                   !.err = <<"AWSServiceError">>]
                  ELSE [rec EXCEPT !.pc = "get_profile"]]
    IN  /\ tasks[t].pc = "idle"
        /\ IF i # 0 /\ ~entry_is_expired(client_cache[i], now)
           THEN /\ tasks' = [tasks EXCEPT ![t] =
                       [rec EXCEPT !.pc = "done",
                                   !.client = client_cache[i].client]]
                /\ UNCHANGED <<client_cache, service_availability_cache>>
           ELSE Checked(IF i # 0 THEN del_client(client_cache, key)
                        ELSE [cache |-> client_cache, raised |-> FALSE],
                        check_service_availability(Start, env, service_name,
                                                   region))
        /\ UNCHANGED <<now, ticks, profiles, reader, sessions, nextId, nextClient,
                       last>>

\* self._cache_client(...) and the return of the client
Stored(rec, client) ==
    [rec EXCEPT !.pc = "done", !.ok = TRUE, !.client = client,
                !.order = NextOrder, !.stored_at = now]

\* session.client(...) comes back from the executor.  A client goes to its
\* smoke test, which suspends for the services that have one, or straight
\* to the cache; a credential error ends the call; another error ends it on
\* the third attempt and otherwise leads, after the sleep, to the next
\* session.client in the executor
ResumeConstruct(t) ==
    \E outcome \in {"ok", "cred", "conn"} :
        LET rec == tasks[t]
            client == [id |-> nextClient + 1, service |-> rec.service,
                       region |-> rec.region,
                       identity |-> IdentityOf(rec.handle)]
        IN  /\ rec.pc = "construct"
            /\ nextClient < MaxClients
            /\ IF outcome = "ok"
               THEN /\ nextClient' = nextClient + 1
                    /\ IF rec.service \in TestedServices
                       THEN /\ tasks' = [tasks EXCEPT ![t] =
                                   [rec EXCEPT !.pc = "smoke",
                                               !.client = client]]
                            /\ UNCHANGED client_cache
                       ELSE /\ tasks' = [tasks EXCEPT ![t] =
                                   Stored(rec, client)]
                            /\ client_cache' =
                                   _cache_client(client_cache, client,
                                       rec.profile_name, rec.region,
                                       rec.service, now)
               ELSE /\ tasks' = [tasks EXCEPT ![t] =
                           IF outcome = "cred" \/ rec.attempt = max_retries - 1
                           THEN Raised(rec, <<"AWSServiceError",
                                              CauseOf(outcome)>>)
                           ELSE [rec EXCEPT !.attempt = @ + 1]]
                    /\ UNCHANGED <<client_cache, nextClient>>
            /\ UNCHANGED <<now, ticks, profiles, reader, sessions, nextId,
                           service_availability_cache, last>>

\* The request of _test_client answers, whatever it answers: the client is
\* cached and returned
ResumeSmoke(t) ==
    LET rec == tasks[t]
    IN  /\ rec.pc = "smoke"
        /\ tasks' = [tasks EXCEPT ![t] = Stored(rec, rec.client)]
        /\ client_cache' = _cache_client(client_cache, rec.client,
                               rec.profile_name, rec.region, rec.service, now)
        /\ UNCHANGED <<now, ticks, profiles, reader, sessions, nextId, nextClient,
                       service_availability_cache, last>>

\* The caller has its result; the task is free for another call
Collect(t) ==
    /\ tasks[t].pc = "done"
    /\ tasks' = [tasks EXCEPT ![t] = NoTask]
    /\ UNCHANGED <<now, ticks, profiles, reader, sessions, nextId, factory_vars, last>>

\* cleanup_expired_clients, run between the steps of the tasks
SweepClients ==
    /\ client_cache' = cleanup_expired_clients(client_cache, now)
    /\ UNCHANGED <<now, ticks, profiles, reader, sessions, nextId, nextClient,
                   service_availability_cache, last, tasks>>

ConcurrentEnvs ==
    [failAt : {0}, exp : {default_session_duration}, lookup : {FALSE},
     attempts : {<<"ok">>}]
GetClientCalled ==
    \E t \in TaskIds, sv \in {"s3", "iam", "glue"}, env \in ConcurrentEnvs :
        CallGetClient(t, sv, None, None, env)
ClientConstructed == \E t \in TaskIds : ResumeConstruct(t)
ClientTested == \E t \in TaskIds : ResumeSmoke(t)
Collected == \E t \in TaskIds : Collect(t)

NextConcurrentClients ==
    \/ GetClientCalled
    \/ ProfileRead
    \/ SessionValidated
    \/ ClientConstructed
    \/ ClientTested
    \/ Collected
    \/ SweepClients
    \/ TaskTick

SpecConcurrentClients == InitTasks /\ [][NextConcurrentClients]_vars

\* Two get_client calls for one (profile, region, service) have both missed
\* the cache, each built and stored a client, and both are over
BothBuiltClients ==
    /\ \A t \in TaskIds : /\ tasks[t].op = "get_client"
                          /\ tasks[t].pc = "done"
                          /\ tasks[t].order # 0
    /\ tasks[1].service = tasks[2].service
    /\ tasks[1].profile_name = tasks[2].profile_name
    /\ tasks[1].region = tasks[2].region
\* The entries the client cache holds for the key of task t
EntriesForKeyOf(t) ==
    {e \in Range(client_cache) :
        cache_key(e) = key_of(tasks[t].profile_name, tasks[t].region,
                              tasks[t].service)}

\* C19: under every interleaving of two get_client tasks with each other
\* and with sweeps of the client cache, no task ends in a missing-key error,
\* the cache never exceeds max_cached_clients and never holds two entries
\* for a key; when two calls for one key have both missed, each has built
\* and returned a client of its own without error, and the cache holds for
\* the key no client but the one stored last, which is there for as long as
\* it has not elapsed
C19_ConcurrentGetClientLastWriteWins ==
    /\ \A t \in TaskIds : "KeyError" \notin Range(tasks[t].err)
    /\ Len(client_cache) <= max_cached_clients
    /\ \A i, j \in 1..Len(client_cache) :
          cache_key(client_cache[i]) = cache_key(client_cache[j]) => i = j
    /\ BothBuiltClients =>
          /\ \A t \in TaskIds : /\ tasks[t].ok
                                /\ tasks[t].err = <<>>
                                /\ tasks[t].client # NoClient
          /\ tasks[1].client # tasks[2].client
          /\ \A e \in EntriesForKeyOf(1) :
                e.client = tasks[LastInserter].client
          /\ now < tasks[LastInserter].stored_at + ClientTTL =>
                Cardinality(EntriesForKeyOf(1)) = 1

\* C19 witness: both calls ran at the same instant, so they overlapped; the
\* cache holds the one client stored last
C19_Witness ==
    /\ BothBuiltClients
    /\ now = 0
    /\ tasks[1].order > tasks[2].order
    /\ \E e \in EntriesForKeyOf(1) : e.client = tasks[1].client
    /\ Cardinality(EntriesForKeyOf(1)) = 1

\* A third key stored while two unelapsed entries fill the cache
ConcurrentEviction ==
    /\ Len(client_cache) = max_cached_clients
    /\ nextClient = MaxClients
    /\ \A e \in Range(client_cache) : e.created_at = now
    /\ \E t \in TaskIds : tasks[t].order = MaxClients

----------------------------------------------------------------------------
(* The background loops: cleanup_sessions_periodically sweeps and then     *)
(* sleeps five minutes, or one minute after an exception;                  *)
(* cleanup_clients_periodically sleeps five minutes and then sweeps.  Each *)
(* is a task of the event loop, suspended only in its sleeps, which are    *)
(* shorter than the model's unit of time.                                  *)
(***************************************************************************)
Loops == {"sessions", "clients"}

after_exception_Stops(loop) == "stopped"

\* except Exception as e: where the loop is once the handler has logged
after_exception(loop) == IF loop = "sessions" THEN "backoff" ELSE "sleep"

InitLoops ==
    /\ now = 0
    /\ ticks = 0
    /\ profiles \in FactoryConfigs
    /\ reader = NoReader
    /\ sessions = <<>>
    /\ nextId = 0
    /\ client_cache = <<>>
    /\ nextClient = 0
    /\ service_availability_cache = <<>>
    /\ last = Idle
    /\ tasks = [l \in Loops |->
                  [pc |-> IF l = "sessions" THEN "sweep" ELSE "sleep",
                   cleaned |-> 0, caught |-> FALSE]]

\* asyncio.sleep is over
LoopWakes(l) ==
    /\ tasks[l].pc \in {"sleep", "backoff"}
    /\ tasks' = [tasks EXCEPT ![l].pc = "sweep"]
    /\ UNCHANGED <<now, ticks, profiles, reader, sessions, nextId, factory_vars,
                   last>>

\* session_manager.cleanup_expired_sessions(), then the loop sleeps
SessionLoopSweeps ==
    /\ tasks["sessions"].pc = "sweep"
    /\ sessions' = cleanup_expired(sessions, now)
    /\ tasks' = [tasks EXCEPT !["sessions"].pc = "sleep",
                              !["sessions"].cleaned =
                                  Len(sessions) - Len(sessions')]
    /\ UNCHANGED <<now, ticks, profiles, reader, nextId, factory_vars, last>>

\* factory.cleanup_expired_clients(), then the loop sleeps
ClientLoopSweeps ==
    /\ tasks["clients"].pc = "sweep"
    /\ client_cache' = cleanup_expired_clients(client_cache, now)
    /\ tasks' = [tasks EXCEPT !["clients"].pc = "sleep",
                              !["clients"].cleaned =
                                  Len(client_cache) - Len(client_cache')]
    /\ UNCHANGED <<now, ticks, profiles, reader, sessions, nextId, nextClient,
                   service_availability_cache, last>>

\* The body of the try raises before anything is removed: the handler logs
\* and the loop goes on
LoopCatches ==
    \E l \in Loops :
        /\ tasks[l].pc = "sweep"
        /\ tasks' = [tasks EXCEPT ![l].pc = after_exception(l),
                                  ![l].caught = TRUE]
        /\ UNCHANGED <<now, ticks, profiles, reader, sessions, nextId, factory_vars,
                       last>>

\* Clients asked for while the loops run: an SSO profile, whose session
\* lasts as long as the cache entry of its client
LoopEnvs ==
    [failAt : {0}, exp : {default_session_duration}, lookup : {FALSE},
     attempts : {<<"ok">>}]
GetClientMeanwhile == GetClientOf({"s3"}, {"sso"}, {None}, LoopEnvs)
LoopTick == Advance({4})

SessionLoopWakes == LoopWakes("sessions")
ClientLoopWakes == LoopWakes("clients")

NextLoops ==
    \/ SessionLoopWakes
    \/ ClientLoopWakes
    \/ SessionLoopSweeps
    \/ ClientLoopSweeps
    \/ LoopCatches
    \/ GetClientMeanwhile
    \/ LoopTick
    \/ Respond

\* The event loop resumes a task whose sleep is over, and neither sweep
\* raises for ever
SpecLoops ==
    /\ InitLoops
    /\ [][NextLoops]_vars
    /\ WF_vars(SessionLoopWakes)
    /\ WF_vars(ClientLoopWakes)
    /\ SF_vars(SessionLoopSweeps)
    /\ SF_vars(ClientLoopSweeps)

ExpiredSessionCached(id) ==
    \E s \in Range(sessions) : s.session_id = id /\ is_expired(s, now)
SessionCached(id) == \E s \in Range(sessions) : s.session_id = id
ExpiredClientCached(id) ==
    \E e \in Range(client_cache) :
        e.client.id = id /\ entry_is_expired(e, now)
ClientCached(id) == \E e \in Range(client_cache) : e.client.id = id

\* C20: neither background loop ever stops, whatever its sweeps raised, and
\* every session and every client entry that is in its cache expired is
\* eventually out of it
C20_LoopsSurviveAndSweepExpiredEntries ==
    /\ [](\A l \in Loops : tasks[l].pc # "stopped")
    /\ \A id \in 1..MaxIds : ExpiredSessionCached(id) ~> ~SessionCached(id)
    /\ \A id \in 1..MaxClients : ExpiredClientCached(id) ~> ~ClientCached(id)

\* C20 witness: both loops have caught an exception and have since swept
\* an expired entry out of their cache
C20_Witness ==
    /\ \A l \in Loops : tasks[l].caught /\ tasks[l].cleaned > 0
    /\ sessions = <<>>
    /\ client_cache = <<>>

----------------------------------------------------------------------------
\* The sessions of a cache, in its order, that have an expiry now reached
Gone(ss) ==
    {i \in 1..Len(ss) : ss[i].expires_at # NoExpiry /\ now >= ss[i].expires_at}
Swept == last.op = "cleanup_expired_sessions"

\* C21: cleanup_expired_sessions leaves in the cache exactly the sessions
\* that were not expired when it was called, unchanged and in their order,
\* removes the others, and returns how many it removed
C21_SweepRemovesExactlyExpiredSessions ==
    Swept =>
        /\ last.ok
        /\ Range(sessions) =
              {last.before[i] : i \in (1..Len(last.before)) \ Gone(last.before)}
        /\ \A i, j \in 1..Len(sessions) :
              i < j => \E a, b \in 1..Len(last.before) :
                          /\ a < b
                          /\ last.before[a] = sessions[i]
                          /\ last.before[b] = sessions[j]
        /\ Len(sessions) = Len(last.before) - Cardinality(Gone(last.before))
        /\ last.count = Cardinality(Gone(last.before))
        /\ nextId = last.firstId - 1
        /\ last.calls = <<>>

\* C21 witness: a sweep removed an expired session and kept a live one
C21_Witness ==
    /\ Swept
    /\ last.count > 0
    /\ sessions # <<>>
    /\ Gone(sessions) = {}

----------------------------------------------------------------------------
(* The credentials reader over fixed profile files *)

\* Every section over the keys with the values
SectionsOver(keys, values) == UNION {[K -> values] : K \in SUBSET keys}
\* key = value, or nothing when the key is absent
Field(key, value) == IF value = None THEN <<>> ELSE [k \in {key} |-> value]

\* One profile, prod, with every combination of the fields its kind depends
\* on, and the sso-session group x
KindReaders ==
    {Reader(File(TRUE, [n \in {"prod"} |-> c]),
            File(TRUE, [n \in {<<"profile", "prod">>, <<"sso-session", "x">>}
                          |-> IF n[1] = "profile" THEN g
                              ELSE Field("sso_start_url", "x")])) :
        c \in SectionsOver({"aws_access_key_id", "aws_secret_access_key",
                            "aws_session_token"}, {"", "x"}),
        g \in SectionsOver({"role_arn", "sso_start_url", "sso_session",
                            "web_identity_token_file"}, {"", "x"})}

\* What the files say of one profile of a chain: whether it has what makes
\* it a profile, its source_profile and its region (None: no such key)
Links ==
    [readable : BOOLEAN,
     source_profile : {None, "default", "prod", "dev", "ghost"},
     has_region : BOOLEAN]
RegionOf(name) ==
    CASE name = "default" -> "us-west-2"
      [] name = "prod"    -> "eu-west-1"
      [] OTHER            -> "ap-south-1"
\* default and dev have a region or none, prod a region or an empty one
ChainSection(name, l) ==
    Update(Update(Field("role_arn",
                        IF l.readable /\ name # "default" THEN "x" ELSE None),
                  Field("source_profile", l.source_profile)),
           Field("region", IF l.has_region THEN RegionOf(name)
                           ELSE IF name = "prod" THEN "" ELSE None))
\* default is a profile by its keys in the credentials file, prod and dev
\* by their role_arn
ChainReaders ==
    {Reader(File(TRUE, IF d.readable
                       THEN [n \in {"default"} |->
                                [k \in {"aws_access_key_id",
                                        "aws_secret_access_key"} |-> "x"]]
                       ELSE NoSections),
            File(TRUE, [n \in {<<"default">>, <<"profile", "prod">>,
                               <<"profile", "dev">>}
                          |-> ChainSection(n[Len(n)],
                                           CASE n[Len(n)] = "default" -> d
                                             [] n[Len(n)] = "prod" -> p
                                             [] OTHER -> v)])) :
        d \in Links, p \in Links, v \in Links}

ReaderNames == {"default", "prod", "dev", "ghost"}

\* reads: the files the operation tried to parse, in order; before: the
\* reader as the operation found it
ReaderLast(op, name, r) ==
    [op |-> op, profile |-> name, ok |-> r.ok, err |-> r.err, val |-> r.val,
     reads |-> r.m.reads, before |-> reader]

CommitReader(r) ==
    /\ last = Idle
    /\ reader' = [r.m EXCEPT !.reads = <<>>]
    /\ UNCHANGED <<now, ticks, profiles, sessions, nextId, factory_vars,
                   tasks>>

ReadProfile ==
    \E profile_name \in ReaderNames :
        LET Done(r) ==
                /\ CommitReader(r)
                /\ last' = ReaderLast("read_profile", profile_name, r)
        IN  Done(read_profile(reader, profile_name))

GetProfileNames ==
    LET Done(r) ==
            /\ CommitReader(r)
            /\ last' = ReaderLast("get_profile_names", None, r)
    IN  Done(get_profile_names(reader))

ResolveProfileChain ==
    \E profile_name \in ReaderNames :
        LET Done(r) ==
                /\ CommitReader(r)
                /\ last' = ReaderLast("resolve_profile_chain", profile_name,
                                      r)
        IN  Done(resolve_profile_chain(reader, profile_name))

GetEffectiveRegion ==
    \E profile_name \in ReaderNames :
        LET Done(r) ==
                /\ CommitReader(r)
                /\ last' = ReaderLast("get_effective_region", profile_name,
                                      r)
        IN  Done(get_effective_region(reader, profile_name))

InitProfiles ==
    /\ now = 0
    /\ ticks = 0
    /\ profiles \in ProfileConfigs
    /\ sessions = <<>>
    /\ nextId = 0
    /\ client_cache = <<>>
    /\ nextClient = 0
    /\ service_availability_cache = <<>>
    /\ last = Idle
    /\ tasks = <<>>
    /\ reader \in KindReaders \cup ChainReaders

NextProfiles ==
    \/ ReadProfile
    \/ GetProfileNames
    \/ ResolveProfileChain
    \/ GetEffectiveRegion
    \/ Respond

SpecProfiles == InitProfiles /\ [][NextProfiles]_vars

----------------------------------------------------------------------------
(* What the two files say, read off their content *)

\* The section of a file for a profile; no keys if it has none
CredentialsSection(rd, n) ==
    IF n \in DOMAIN rd.credentials_file.sections
    THEN rd.credentials_file.sections[n] ELSE <<>>
ConfigSection(rd, n) ==
    LET s == IF n = "default" THEN <<"default">> ELSE <<"profile", n>>
    IN  IF s \in DOMAIN rd.config_file.sections
        THEN rd.config_file.sections[s] ELSE <<>>
HasStaticCredential(rd, n) ==
    /\ Truthy(Get(CredentialsSection(rd, n), "aws_access_key_id"))
    /\ Truthy(Get(CredentialsSection(rd, n), "aws_secret_access_key"))
IdentifyingKeys ==
    {"role_arn", "sso_start_url", "sso_session", "web_identity_token_file"}
IsProfile(rd, n) ==
    \/ HasStaticCredential(rd, n)
    \/ DOMAIN ConfigSection(rd, n) \cap IdentifyingKeys # {}
\* The source_profile link of a name, None if it has none to follow
LinkOf(rd, n) ==
    IF IsProfile(rd, n) /\ Truthy(Get(ConfigSection(rd, n), "source_profile"))
    THEN ConfigSection(rd, n)["source_profile"] ELSE None

RECURSIVE Trail(_, _, _)
\* The names met following the links from n after path, and the name the
\* links come back to, None if they end
Trail(rd, n, path) ==
    IF n = None THEN [path |-> path, back |-> None]
    ELSE IF \E i \in 1..Len(path) : path[i] = n
    THEN [path |-> path, back |-> n]
    ELSE Trail(rd, LinkOf(rd, n), Append(path, n))
\* The profiles on the cycle of a trail that comes back
OnCycle(t) ==
    {t.path[i] : i \in {j \in 1..Len(t.path) :
                           \E k \in 1..j : t.path[k] = t.back}}

Resolving == last.op = "resolve_profile_chain"
TrailOfLast == Trail(last.before, last.profile, <<>>)

\* C22: when the source_profile links from the name come back to a name
\* already met, resolve_profile_chain returns no chain: it raises
\* AWSCredentialError, and the path it reports holds every profile on the
\* cycle.
C22_CycleRaisesWithPath ==
    (Resolving /\ TrailOfLast.back # None) =>
        /\ ~last.ok
        /\ last.err = <<"AWSCredentialError">>
        /\ OnCycle(TrailOfLast) \subseteq Range(last.val)

\* A cycle of two profiles entered from a third
C22_Witness ==
    /\ Resolving
    /\ TrailOfLast.back # None
    /\ TrailOfLast.back # last.profile
    /\ Cardinality(OnCycle(TrailOfLast)) = 2
    /\ ~last.ok

\* C23: when the links from the name end, resolve_profile_chain returns
\* the names met in order, the last being the first profile without a
\* source_profile or the first name that is no profile; with no
\* source_profile the chain is the name alone.
C23_ChainFollowsLinks ==
    (Resolving /\ TrailOfLast.back = None) =>
        /\ last.ok
        /\ last.val = TrailOfLast.path
        /\ (LinkOf(last.before, last.profile) = None =>
                last.val = <<last.profile>>)

\* A chain of three names that ends at a name that is no profile
C23_Witness ==
    /\ Resolving
    /\ last.ok
    /\ Len(last.val) = 3
    /\ ~IsProfile(last.before, last.val[3])
    /\ last.val = TrailOfLast.path

\* The region of the first profile of the path that has a non-empty one,
\* the region of the settings if none has
FirstRegion(rd, path) ==
    LET regional ==
            SelectSeq(path, LAMBDA n :
                /\ IsProfile(rd, n)
                /\ Truthy(Get(ConfigSection(rd, n), "region")))
    IN  IF regional = <<>> THEN AWS_DEFAULT_REGION
        ELSE ConfigSection(rd, regional[1])["region"]

Locating == last.op = "get_effective_region"

\* C24 as stated: get_effective_region returns the first non-empty region
\* of the profiles met following the links from the name, so the region of
\* the profile itself whenever it has one, and the default region of the
\* settings only when none of them has a region.
C24_FirstRegionAlways ==
    Locating => last.val = FirstRegion(last.before, TrailOfLast.path)

\* C24: when the links from the name end, get_effective_region returns the
\* first non-empty region of the profiles of the chain in order, and the
\* default region of the settings when none has one; when the links come
\* back to a name already met it returns the default region, whatever
\* regions the profiles have.
C24_FirstRegionOfResolvedChain ==
    Locating =>
        /\ last.ok
        /\ last.val = IF TrailOfLast.back = None
                      THEN FirstRegion(last.before, TrailOfLast.path)
                      ELSE AWS_DEFAULT_REGION

\* The region is inherited from the second profile up the chain
C24_Witness ==
    /\ Locating
    /\ TrailOfLast.back = None
    /\ Len(TrailOfLast.path) = 3
    /\ ~Truthy(Get(ConfigSection(last.before, last.profile), "region"))
    /\ ~Truthy(Get(ConfigSection(last.before, TrailOfLast.path[2]),
                   "region"))
    /\ last.val = RegionOf(TrailOfLast.path[3])

Reading == last.op = "read_profile"
\* The key has a non-empty value in the config section of the profile
Present(rd, n, key) == Truthy(Get(ConfigSection(rd, n), key))
SessionToken(rd, n) == Get(CredentialsSection(rd, n), "aws_session_token")

\* C25: the profile_type of the profile read_profile builds follows from
\* the fields present alone: sso with an SSO start URL or SSO session
\* group, else iam_role with a role ARN, else federated with a web identity
\* token file, else session with a static credential that has a session
\* token, else iam_user.
C25_KindByFieldPresence ==
    (Reading /\ last.ok) =>
        last.val.profile_type =
            (IF Present(last.before, last.profile, "sso_start_url")
                \/ Present(last.before, last.profile, "sso_session")
             THEN "sso"
             ELSE IF Present(last.before, last.profile, "role_arn")
             THEN "iam_role"
             ELSE IF Present(last.before, last.profile,
                             "web_identity_token_file")
             THEN "federated"
             ELSE IF HasStaticCredential(last.before, last.profile)
                     /\ Truthy(SessionToken(last.before, last.profile))
             THEN "session"
             ELSE "iam_user")

\* A role ARN decides over a token file and a session token
C25_Witness ==
    /\ Reading
    /\ last.ok
    /\ last.val.profile_type = "iam_role"
    /\ Present(last.before, last.profile, "web_identity_token_file")
    /\ HasStaticCredential(last.before, last.profile)
    /\ Truthy(SessionToken(last.before, last.profile))

\* The credentials and the fields the two sections of the profile give
MergedCredential(rd, n) ==
    IF HasStaticCredential(rd, n)
    THEN [k \in {"aws_access_key_id", "aws_secret_access_key",
                 "aws_session_token"} |-> Get(CredentialsSection(rd, n), k)]
    ELSE NoCredential

\* C26: read_profile raises AWSProfileNotFoundError exactly when the
\* sections of the name give no static credential (access key and secret
\* key both with a value) and hold none of role_arn, sso_start_url,
\* sso_session, web_identity_token_file; otherwise it returns the profile
\* of that name with the credential of the credentials file and the fields
\* of the config file.
C26_NotFoundIffNothingIdentifies ==
    Reading =>
        IF IsProfile(last.before, last.profile)
        THEN /\ last.ok
             /\ last.val.name = last.profile
             /\ last.val.credentials =
                    MergedCredential(last.before, last.profile)
             /\ \A k \in {"region", "role_arn", "source_profile",
                          "sso_session", "web_identity_token_file"} :
                    last.val[k] = Get(ConfigSection(last.before,
                                                    last.profile), k)
        ELSE /\ ~last.ok
             /\ last.err = <<"AWSProfileNotFoundError">>

\* An access key without a secret key does not make a profile
C26_Witness ==
    /\ Reading
    /\ ~last.ok
    /\ Truthy(Get(CredentialsSection(last.before, last.profile),
                  "aws_access_key_id"))
    /\ Truthy(SessionToken(last.before, last.profile))
    /\ last.profile \in Range(last.val)

----------------------------------------------------------------------------
(* The credentials reader while time passes and the files are edited *)

MaxMinutes == 6                \* the reader's clock stops here
ClockSteps == {1, 5}

StaticKeys(v) ==
    [k \in {"aws_access_key_id", "aws_secret_access_key"} |-> v]
\* What ~/.aws/credentials and ~/.aws/config may hold
CredentialsVersions ==
    {[n \in {"default"} |-> StaticKeys("x")],
     [n \in {"dev"} |-> StaticKeys("y")]}
ConfigVersions ==
    {[n \in {<<"default">>} |-> Field("region", "us-west-2")],
     [n \in {<<"profile", "prod">>} |-> Field("role_arn", "x")]}

InitReaderCache ==
    /\ now = 0
    /\ ticks = 0
    /\ profiles \in ProfileConfigs
    /\ sessions = <<>>
    /\ nextId = 0
    /\ client_cache = <<>>
    /\ nextClient = 0
    /\ service_availability_cache = <<>>
    /\ last = Idle
    /\ tasks = <<>>
    /\ reader \in {Reader(File(TRUE, c), File(TRUE, g)) :
                      c \in CredentialsVersions, g \in ConfigVersions}

\* Someone rewrites one of the files, or makes it unreadable
EditFile ==
    \E file \in {"credentials_file", "config_file"}, readable \in BOOLEAN :
        \E sections \in IF file = "credentials_file"
                        THEN CredentialsVersions ELSE ConfigVersions :
            /\ last = Idle
            /\ reader[file] # File(readable, sections)
            /\ reader' = [reader EXCEPT ![file] = File(readable, sections)]
            /\ UNCHANGED <<now, ticks, profiles, sessions, nextId,
                           factory_vars, last, tasks>>

\* The reader's clock advances between operations
ReaderTick ==
    \E d \in ClockSteps :
        /\ last = Idle
        /\ reader.clock + d <= MaxMinutes
        /\ reader' = [reader EXCEPT !.clock = @ + d]
        /\ UNCHANGED <<now, ticks, profiles, sessions, nextId,
                       factory_vars, last, tasks>>

NextReaderCache ==
    \/ ReadProfile
    \/ GetProfileNames
    \/ EditFile
    \/ ReaderTick
    \/ Respond

SpecReaderCache == InitReaderCache /\ [][NextReaderCache]_vars

ReaderFiles == {"credentials_file", "config_file"}
CacheOf(file) ==
    IF file = "credentials_file" THEN "_credentials_cache"
    ELSE "_config_cache"
ReadingFiles == last.op \in {"read_profile", "get_profile_names"}
\* The operation tried to parse the file, and its last try failed
FailedNow(file) ==
    /\ \E i \in 1..Len(last.reads) : last.reads[i] = file
    /\ file \in reader.failed
\* The operation took the sections of the file from the cache
Served(file) == reader[CacheOf(file)].loaded /\ ~FailedNow(file)

\* C27: the content of either file that read_profile or get_profile_names
\* takes from the reader's cache was parsed at most 5 minutes before.
C27_CachedContentAtMostTTLOld ==
    ReadingFiles =>
        \A file \in ReaderFiles :
            Served(file) =>
                reader.clock - reader.parsed_at[file] <= _cache_ttl

\* C28 vocabulary.  The files as the pending operation saw them: a file
\* whose parse failed as an empty one, the other as the cache holds it
Seen(file) ==
    File(TRUE, IF FailedNow(file) THEN NoSections
               ELSE reader[CacheOf(file)].sections)
SeenFiles ==
    [credentials_file |-> Seen("credentials_file"),
     config_file |-> Seen("config_file")]
\* The profile names the sections of the files give
NamesIn(rd) ==
    {n \in ReaderNames :
        \/ n \in DOMAIN rd.credentials_file.sections
        \/ (IF n = "default" THEN <<"default">> ELSE <<"profile", n>>)
               \in DOMAIN rd.config_file.sections}
OneFailed ==
    /\ ReadingFiles
    /\ \E file \in ReaderFiles :
        FailedNow(file) /\ \A other \in ReaderFiles \ {file} :
                                ~FailedNow(other)
\* The parse of one file failed: the operation raises no file error and
\* answers from the sections of the other file alone
AnswersFromOtherFile ==
    OneFailed =>
        IF last.op = "get_profile_names"
        THEN /\ last.ok
             /\ Range(last.val) = NamesIn(SeenFiles)
             /\ Len(last.val) = Cardinality(NamesIn(SeenFiles))
        ELSE IF IsProfile(SeenFiles, last.profile)
        THEN /\ last.ok
             /\ last.val.credentials =
                    MergedCredential(SeenFiles, last.profile)
             /\ \A k \in {"region", "role_arn"} :
                    last.val[k] = Get(ConfigSection(SeenFiles,
                                                    last.profile), k)
        ELSE last.err = <<"AWSProfileNotFoundError">>
\* A failed parse stores nothing in the cache of the file
FailureNotCached ==
    \A file \in ReaderFiles :
        (ReadingFiles /\ FailedNow(file)) =>
            /\ reader[CacheOf(file)] = last.before[CacheOf(file)]
            /\ reader.parsed_at[file] = last.before.parsed_at[file]
\* A file whose parse failed and of which no earlier parse is cached is
\* parsed again by the next read
TriedAgain ==
    \A file \in ReaderFiles :
        (/\ last = Idle
         /\ file \in reader.failed
         /\ ~reader[CacheOf(file)].loaded
         /\ ReadingFiles') =>
            \E i \in 1..Len(last'.reads) : last'.reads[i] = file

----------------------------------------------------------------------------
\* C29: get_client for a profile that does not exist fails, and the error
\* its caller gets is the AWSProfileNotFoundError the session manager
\* raised.
C29_UnknownProfileRaisesProfileNotFound ==
    (last.op = "get_client" /\ ~Known(last.profile)) =>
        /\ ~last.ok
        /\ Head(last.err) = "AWSProfileNotFoundError"

----------------------------------------------------------------------------
(* One session against the clock *)

MaxExpiry == 6                 \* latest expires_at of the session

InitSessionClock ==
    /\ now \in 0..2
    /\ ticks = 0
    /\ profiles \in ProfileConfigs
    /\ reader = NoReader
    /\ \E expires_at \in {NoExpiry} \cup 0..MaxExpiry :
        sessions = <<AWSSession("default", "us-east-1", 1, expires_at,
                                StaticCreds("default"), FALSE, NoArn,
                                "standard")>>
    /\ nextId = 1
    /\ client_cache = <<>>
    /\ nextClient = 0
    /\ service_availability_cache = <<>>
    /\ last = Idle
    /\ tasks = <<>>

\* session.is_expired
IsExpired ==
    /\ last = Idle
    /\ last' = [Idle EXCEPT !.op = "is_expired",
                            !.flag = is_expired(sessions[1], now)]
    /\ UNCHANGED <<now, ticks, profiles, reader, sessions, nextId,
                   factory_vars, tasks>>

\* session.should_refresh()
ShouldRefresh ==
    /\ last = Idle
    /\ last' = [Idle EXCEPT !.op = "should_refresh",
                            !.flag = should_refresh(sessions[1], now)]
    /\ UNCHANGED <<now, ticks, profiles, reader, sessions, nextId,
                   factory_vars, tasks>>

NextSessionClock ==
    \/ IsExpired
    \/ ShouldRefresh
    \/ Advance({1, 3})
    \/ Respond

SpecSessionClock == InitSessionClock /\ [][NextSessionClock]_vars

\* C30: should_refresh() of a session with an expiry is true exactly when
\* now >= expires_at - 15 minutes, so it is true of every expired session;
\* of a session without expiry is_expired and should_refresh() are false.
C30_ShouldRefreshIffWithinThreshold ==
    LET expires_at == sessions[1].expires_at
    IN  /\ last.op = "should_refresh" =>
               last.flag = (/\ expires_at # NoExpiry
                            /\ now >= expires_at - RefreshThreshold)
        /\ last.op = "is_expired" =>
               last.flag = (expires_at # NoExpiry /\ now >= expires_at)

\* Exactly 15 minutes before the expiry: not expired, to be refreshed
C30_Witness ==
    /\ last.op = "should_refresh"
    /\ last.flag
    /\ ticks > 0
    /\ now = sessions[1].expires_at - RefreshThreshold

----------------------------------------------------------------------------
(* The session manager over profiles with and without embedded keys *)

\* Temporary keys of a profile: access key, secret key and session token
TokenCreds(p) == [kind |-> "session", of |-> p]

\* default: static keys; tok: keys with a session token; bare: an iam_user
\* profile without keys; fed: web identity, no keys
StandardTable ==
    [n \in {"default", "tok", "bare", "fed"} |->
        CASE n = "default" -> Profile("iam_user", None, StaticCreds("default"),
                                      NoArn, None, NoDuration, FALSE)
          [] n = "tok"     -> Profile("session", "eu-west-1", TokenCreds("tok"),
                                      NoArn, None, NoDuration, FALSE)
          [] n = "bare"    -> Profile("iam_user", None, NoCreds,
                                      NoArn, None, NoDuration, FALSE)
          [] OTHER         -> Profile("federated", None, NoCreds,
                                      NoArn, None, NoDuration, FALSE)]

InitStandard ==
    /\ now = 0
    /\ ticks = 0
    /\ profiles = StandardTable
    /\ reader = NoReader
    /\ sessions = <<>>
    /\ nextId = 0
    /\ client_cache = <<>>
    /\ nextClient = 0
    /\ service_availability_cache = <<>>
    /\ last = Idle
    /\ tasks = <<>>

\* get_session called with arguments from the given sets
GetSessionOf(profile_args, region_args, envs) ==
    \E profile_name \in profile_args, region \in region_args,
       force_refresh \in BOOLEAN, env \in envs :
        LET Done(r) ==
                /\ Commit(r)
                /\ last' = [Last("get_session", profile_name, region,
                                 force_refresh, Start, r)
                              EXCEPT !.handle = r.val]
        IN  /\ Done(get_session(Start, env, profile_name, region,
                                force_refresh, 0))
            /\ UNCHANGED <<now, ticks, profiles, reader, factory_vars>>

GetStandardSession ==
    GetSessionOf({None, "tok", "bare", "fed"}, RegionArgs, Envs)

NextStandard ==
    \/ GetStandardSession
    \/ CleanupExpiredSessions
    \/ Tick
    \/ Respond

SpecStandard == InitStandard /\ [][NextStandard]_vars

\* The pending get_session is for a profile of kind iam_user or session
ForStandardProfile ==
    /\ last.op = "get_session"
    /\ Known(last.profile)
    /\ profiles[ArgName(last.profile)].profile_type \in {"iam_user", "session"}

\* C31: every session created for an iam_user or session profile carries
\* exactly the credentials embedded in the profile and expires 24 hours
\* after its creation; for such a profile without embedded credentials
\* get_session raises AWSSessionError and the cache gets no session.
C31_StandardSessionWrapsProfileKeys ==
    /\ \A s \in Range(sessions) :
          s.origin = "standard" =>
              /\ s.credentials = profiles[s.profile_name].credentials
              /\ s.credentials # NoCreds
              /\ s.expires_at = s.created_at + StandardSessionTTL
    /\ (ForStandardProfile /\ Missed) =>
          IF profiles[ArgName(last.profile)].credentials = NoCreds
          THEN /\ ~last.ok
               /\ Head(last.err) = "AWSSessionError"
               /\ sessions = last.before
          ELSE /\ Cardinality(Added) = 1
               /\ \A s \in Added : /\ s.origin = "standard"
                                   /\ s.created_at = now
                                   /\ s.profile_name = ArgName(last.profile)

\* A session for the profile with a session token is created while the
\* cache holds an older one; the profile without keys was refused before
C31_Witness ==
    /\ ForStandardProfile
    /\ last.ok
    /\ now > 0
    /\ \E s \in Added : s.credentials = TokenCreds("tok")
    /\ \E s \in Range(last.before) : s.profile_name = "default"

\* The profile without keys is refused
C31_Refused ==
    /\ ForStandardProfile
    /\ ~last.ok
    /\ profiles[ArgName(last.profile)].credentials = NoCreds
    /\ last.before # <<>>

----------------------------------------------------------------------------
(* The session cache on its own: insertions of sessions of every expiry *)

CacheNames == {"default", "prod"}
\* Lifetimes of the inserted sessions, NoExpiry for expires_at = None
Lifetimes == {NoExpiry, 2, 4}

\* session_cache.add_session(session) for a session built just now
AddSession ==
    \E profile_name \in CacheNames, life \in Lifetimes :
        LET m == [Start EXCEPT
                    !.nextId = nextId + 1,
                    !.sessions =
                        add_session(sessions,
                                    AWSSession(profile_name, "us-east-1",
                                               nextId + 1,
                                               IF life = NoExpiry THEN NoExpiry
                                               ELSE now + life,
                                               StaticCreds(profile_name),
                                               FALSE, NoArn, "standard"),
                                    now)]
        IN  /\ Commit(Return(m, None))
            /\ last' = Last("add_session", profile_name, None, FALSE, Start,
                            Return(m, None))
            /\ UNCHANGED <<now, ticks, profiles, reader, factory_vars>>

NextCache ==
    \/ AddSession
    \/ Advance({1, 3})
    \/ Respond

SpecCache == Init /\ [][NextCache]_vars

Inserting == last.op = "add_session"
\* The sessions the pending insertion found unexpired, and those it removed
Unexpired == {s \in Range(last.before) : ~is_expired(s, now)}
Evicted == Unexpired \ Range(sessions)

\* C32: an insertion leaves none of the sessions that were expired when it
\* ran; it removes an unexpired session only when the unexpired ones already
\* numbered max_sessions, and then it removes exactly one of them, which is
\* the one of least created_at; the new session is always stored.
C32_InsertionEvictsOnlyWhenFullOfUnexpired ==
    Inserting =>
        /\ \A s \in Range(last.before) : is_expired(s, now) => s \notin Range(sessions)
        /\ Cardinality(Added) = 1
        /\ Range(sessions) \subseteq Unexpired \cup Added
        /\ IF Cardinality(Unexpired) >= max_sessions
           THEN /\ Cardinality(Evicted) = 1
                /\ \A e \in Evicted : \A s \in Unexpired :
                      e.created_at <= s.created_at
           ELSE Evicted = {}

\* A full cache of unexpired sessions took one more and the session that
\* went was not the one closest to its expiry
C32_Witness ==
    /\ Inserting
    /\ Cardinality(Unexpired) = max_sessions
    /\ \E e \in Evicted : \E s \in Unexpired :
          /\ e.created_at < s.created_at
          /\ s.expires_at # NoExpiry
          /\ s.expires_at < e.expires_at

\* An insertion found an expired and an unexpired session: only the expired
\* one went
C32_DroppedExpired ==
    /\ Inserting
    /\ Len(last.before) = max_sessions
    /\ Cardinality(Unexpired) = 1
    /\ Evicted = {}

----------------------------------------------------------------------------
(* Handles built from cached sessions of every shape *)

\* session_cache.add_session(session) with a session the caller built:
\* credentials present or absent, is_role_session set or not
CacheSession ==
    \E profile_name \in {"default", "sso"}, is_role_session \in BOOLEAN,
       credentials \in {NoCreds, StaticCreds("default")} :
        LET m == [Start EXCEPT
                    !.nextId = nextId + 1,
                    !.sessions =
                        add_session(sessions,
                                    AWSSession(profile_name, "us-east-1",
                                               nextId + 1,
                                               now + StandardSessionTTL,
                                               credentials, is_role_session,
                                               NoArn, "caller"),
                                    now)]
        IN  /\ Commit(Return(m, None))
            /\ last' = Last("add_session", profile_name, None, FALSE, Start,
                            Return(m, None))
            /\ UNCHANGED <<now, ticks, profiles, reader, factory_vars>>

GetHandle == GetSessionOf({None, "sso", "prod"}, {None}, Envs)

NextHandles ==
    \/ GetHandle
    \/ CacheSession
    \/ Tick
    \/ Respond

SpecHandles == Init /\ [][NextHandles]_vars

\* The cached sessions the pending get_session built its handle from: the
\* one it found for its key, or else the one it created and cached
HandleSources ==
    IF last.op # "get_session" \/ ~Known(last.profile) THEN {}
    ELSE IF ~Missed
    THEN {last.before[i] : i \in
            {get_session_by_profile(last.before, ArgName(last.profile),
                                    KeyRegion(last.profile, last.region),
                                    now)} \ {0}}
    ELSE {s \in Added : /\ s.profile_name = ArgName(last.profile)
                        /\ s.region = KeyRegion(last.profile, last.region)}

\* C33: the handle get_session returns is built by profile name exactly
\* when the cached session it comes from has no credentials, and is
\* otherwise built from that session's own credential fields; a handle that
\* comes from a session of the SSO strategy is never built from keys; a
\* session without credentials that is not a role session makes get_session
\* raise AWSSessionError before any probe.
C33_HandleByProfileIffNoCredentials ==
    \A s \in HandleSources :
        /\ last.ok =>
              /\ last.handle.session_id = s.session_id
              /\ last.handle.region = s.region
              /\ last.handle.via = "profile" <=> s.credentials = NoCreds
              /\ last.handle.via = "profile" =>
                    /\ s.is_role_session
                    /\ last.handle.profile_name = s.profile_name
                    /\ last.handle.credentials = NoCreds
              /\ last.handle.via = "keys" =>
                    /\ last.handle.credentials = s.credentials
                    /\ s.origin # "sso"
        /\ s.origin = "sso" => s.credentials = NoCreds
        /\ (s.credentials = NoCreds /\ ~s.is_role_session) =>
              /\ ~last.ok
              /\ Head(last.err) = "AWSSessionError"
              /\ Trace("_validate_session", "sts:GetCallerIdentity", 0) = {}

\* A cache hit on a session of the SSO strategy returned a handle
C33_Witness ==
    /\ last.ok
    /\ ~Missed
    /\ \E s \in HandleSources : s.origin = "sso" /\ last.handle.via = "profile"
    /\ \E s \in Range(last.before) : s.credentials # NoCreds

\* A cache hit on a session without credentials that is not a role session
C33_Refused ==
    /\ ~Missed
    /\ \E s \in HandleSources : s.credentials = NoCreds /\ ~s.is_role_session

----------------------------------------------------------------------------
\* The smoke tests of the pending call, and its attempts that constructed
\* a client
SmokeTests ==
    {i \in 1..Len(last.calls) : last.calls[i].site = "_test_client"}
Constructed ==
    {i \in Attempts : last.calls[i].who \in {"ok", "smoke"}}

\* C34: the attempt of _create_client_with_retry on which session.client
\* returned a client is the last attempt and the call returns that client
\* without an error, having slept only after the failed attempts before it,
\* whether the smoke test that follows it passes, fails or is not made.
C34_SmokeTestNeverChangesOutcome ==
    Retrying =>
        /\ \A i \in Constructed :
              /\ last.ok
              /\ last.err = <<>>
              /\ last.client.id = last.firstClient
              /\ nextClient = last.firstClient
              /\ \A j \in Attempts : j <= i
              /\ Len(last.delays) = last.calls[i].lvl
              /\ last.service \in TestedServices =>
                    /\ SmokeTests = {i + 1}
                    /\ last.calls[i + 1].ok <=> last.calls[i].who = "ok"
        /\ SmokeTests # {} => Constructed # {}

\* The client was constructed on the second attempt and its smoke test
\* failed
C34_Witness ==
    /\ Retrying
    /\ last.ok
    /\ Cardinality(Attempts) = 2
    /\ \E i \in SmokeTests : ~last.calls[i].ok
    /\ last.delays = <<1>>

----------------------------------------------------------------------------
\* The pending get_session created a session and raised because the probe
\* of the handle built from it failed
ProbeFailed ==
    /\ last.op = "get_session"
    /\ ~last.ok
    /\ Missed
    /\ \E j \in Trace("_validate_session", "sts:GetCallerIdentity", 0) :
          ~last.calls[j].ok

\* Sessions for the key of the pending call that it added to the cache
AddedForKey ==
    {s \in Added : /\ s.profile_name = ArgName(last.profile)
                   /\ s.region = KeyRegion(last.profile, last.region)}

\* C35: when get_session raises because the identity probe on the session
\* it has just created failed, the cache holds no session for the key that
\* this call created.
C35_FailedProbeLeavesNoSession ==
    ProbeFailed => AddedForKey = {}

\* The session the next get_session for the key of the pending call finds
\* in the cache now (none: the empty set)
ServedNext ==
    {sessions[i] : i \in
        {get_session_by_profile(sessions, ArgName(last.profile),
                                KeyRegion(last.profile, last.region),
                                now)} \ {0}}

\* C36: when refresh_credentials has returned True, the session a
\* get_session for the same profile and region finds in the cache is the
\* one the refresh created, not an older one for the same key.
C36_NextCallUsesRefreshedSession ==
    (last.op = "refresh_credentials" /\ last.flag) =>
        /\ ServedNext # {}
        /\ ServedNext \subseteq Added

----------------------------------------------------------------------------
(* Role profiles whose source_profile links form a cycle *)

\* loop names itself as source; a and b name each other; tail leads into
\* the cycle of a and b; prod assumes its role from default
CyclicTable ==
    [n \in {"default", "prod", "loop", "a", "b", "tail"} |->
        CASE n = "default" -> Profile("iam_user", None, StaticCreds("default"),
                                      NoArn, None, NoDuration, FALSE)
          [] n = "prod"    -> Profile("iam_role", None, NoCreds, AdminArn,
                                      "default", NoDuration, FALSE)
          [] n = "loop"    -> Profile("iam_role", None, NoCreds, AdminArn,
                                      "loop", NoDuration, FALSE)
          [] n = "a"       -> Profile("iam_role", None, NoCreds, AdminArn,
                                      "b", NoDuration, FALSE)
          [] n = "b"       -> Profile("iam_role", None, NoCreds, AuditArn,
                                      "a", NoDuration, FALSE)
          [] OTHER         -> Profile("iam_role", None, NoCreds, AuditArn,
                                      "a", NoDuration, FALSE)]

InitCycles ==
    /\ now = 0
    /\ ticks = 0
    /\ profiles = CyclicTable
    /\ reader = NoReader
    /\ sessions = <<>>
    /\ nextId = 0
    /\ client_cache = <<>>
    /\ nextClient = 0
    /\ service_availability_cache = <<>>
    /\ last = Idle
    /\ tasks = <<>>

\* get_session for any profile of the table; every nested level draws a
\* session id before it recurses
GetSessionOnCycle ==
    \E profile_name \in {None, "prod", "loop", "a", "tail"},
       region \in RegionArgs, force_refresh \in BOOLEAN, env \in Envs :
        LET Done(r) ==
                /\ last = Idle
                /\ nextId < MaxIds
                /\ sessions' = r.m.sessions
                /\ nextId' = r.m.nextId
                /\ last' = [Last("get_session", profile_name, region,
                                 force_refresh, Start, r)
                              EXCEPT !.handle = r.val]
        IN  /\ Done(get_session(Start, env, profile_name, region,
                                force_refresh, 0))
            /\ UNCHANGED <<now, ticks, profiles, reader, factory_vars, tasks>>

NextCycles ==
    \/ GetSessionOnCycle
    \/ Tick
    \/ Respond

SpecCycles == InitCycles /\ [][NextCycles]_vars

\* The profile reached from n after k source_profile links of role
\* profiles; None when the links end before
RECURSIVE SourceAfter(_, _)
SourceAfter(n, k) ==
    IF k = 0 THEN n
    ELSE IF n \notin DOMAIN profiles THEN None
    ELSE IF profiles[n].profile_type # "iam_role" THEN None
    ELSE SourceAfter(ArgName(profiles[n].source_profile), k - 1)
\* The source_profile links from n never end
Endless(n) == SourceAfter(n, Cardinality(DOMAIN profiles)) # None

\* Nested get_session calls of the pending operation
Nested ==
    {i \in 1..Len(last.calls) :
        last.calls[i].site = "get_session" /\ last.calls[i].call = "enter"}

----------------------------------------------------------------------------
(* A configured profile that carries the name assume_role gives its sessions *)

\* A role of another account whose ARN ends in the same segment as AdminArn
OtherAdminArn == <<"arn:aws:iam::222:role", "Admin">>

\* prod assumes AdminArn; the profile named role-Admin assumes OtherAdminArn
SyntheticTable ==
    [n \in {"default", "prod", "role-Admin"} |->
        CASE n = "default" -> Profile("iam_user", None, StaticCreds("default"),
                                      NoArn, None, NoDuration, FALSE)
          [] n = "prod"    -> Profile("iam_role", None, NoCreds, AdminArn,
                                      "default", NoDuration, FALSE)
          [] OTHER         -> Profile("iam_role", None, NoCreds, OtherAdminArn,
                                      "default", NoDuration, FALSE)]

InitSynthetic ==
    /\ now = 0
    /\ ticks = 0
    /\ profiles = SyntheticTable
    /\ reader = NoReader
    /\ sessions = <<>>
    /\ nextId = 0
    /\ client_cache = <<>>
    /\ nextClient = 0
    /\ service_availability_cache = <<>>
    /\ last = Idle
    /\ tasks = <<>>

GetSessionByName == GetSessionOf({None, "prod", "role-Admin"}, {None}, Envs)

NextSynthetic ==
    \/ GetSessionByName
    \/ AssumeRole
    \/ Tick
    \/ Respond

SpecSynthetic == InitSynthetic /\ [][NextSynthetic]_vars

\* C38: the session a get_session cache hit builds its handle from was
\* created for the profile of the call by get_session itself: it is not a
\* session that assume_role cached under the name role-<last segment of
\* the role ARN>, and when the profile assumes a role it holds that role.
C38_HitReturnsSessionOfOwnProfile ==
    (last.op = "get_session" /\ last.ok /\ ~Missed) =>
        \A s \in HandleSources :
            /\ s.origin # "assume_role"
            /\ profiles[ArgName(last.profile)].profile_type = "iam_role" =>
                  s.role_arn = profiles[ArgName(last.profile)].role_arn

----------------------------------------------------------------------------
RECURSIVE Closure(_, _)
\* The names reached from the names of S by source_profile links
Closure(rd, S) ==
    LET T == S \cup ({LinkOf(rd, n) : n \in S} \ {None})
    IN  IF T = S THEN S ELSE Closure(rd, T)
Reachable == Closure(last.before, {last.profile})

\* C39: resolve_profile_chain ends for every content of the two files; the
\* chain it returns, and the path it reports when it raises for a cycle,
\* starts at the given name, holds no name twice, holds only names
\* reachable from the start by source_profile links, and so is no longer
\* than the number of those names.
C39_ChainHoldsDistinctReachableNames ==
    (Resolving /\ (last.ok \/ last.err = <<"AWSCredentialError">>)) =>
        /\ Len(last.val) >= 1
        /\ last.val[1] = last.profile
        /\ \A i, j \in 1..Len(last.val) : last.val[i] = last.val[j] => i = j
        /\ Range(last.val) \subseteq Reachable
        /\ Len(last.val) <= Cardinality(Reachable)

\* A chain through three profiles, as long as the names reachable are many
C39_Witness ==
    /\ Resolving
    /\ last.ok
    /\ Len(last.val) = 3
    /\ IsProfile(last.before, last.val[3])
    /\ Cardinality(Reachable) = 3

----------------------------------------------------------------------------
\* C40: read_profile succeeds for every name get_profile_names returns, and
\* a read_profile that raises AWSProfileNotFoundError was given a name that
\* is not in the list of available profiles its message holds.
C40_ListedNamesAreReadable ==
    /\ (last.op = "get_profile_names" /\ last.ok) =>
          \A n \in Range(last.val) : read_profile(reader, n).ok
    /\ (Reading /\ ~last.ok /\ Head(last.err) = "AWSProfileNotFoundError") =>
          last.profile \notin Range(last.val)

====
